---------------------------- MODULE Spec2Model ----------------------------
(***************************************************************************)
(* Model of the SaveMe image-metadata engine (src/src/lib/onedrive-api.js, *)
(* addImageMetadata and the JPEG / PNG / WebP injectors it dispatches to). *)
(*                                                                         *)
(* Bytes are the integers 0..255 and a buffer is a sequence of bytes       *)
(* (index 0 of the code is index 1 here).  A JavaScript string is the      *)
(* sequence of its UTF-16 code units; TextEncoder turns it into UTF-8.     *)
(* 32-bit words that do not fit TLC's integers (CRC values) are          *)
(* kept as their four bytes <<b3, b2, b1, b0>>, most significant first.    *)
(***************************************************************************)
EXTENDS Integers, Sequences, FiniteSets, TLC

VARIABLES
    input,      \* the bytes the caller's Blob was created with
    blob,       \* the Blob handed to addImageMetadata: [store, type]
    url,        \* the url argument (sequence of UTF-16 code units)
    datetime,   \* the Date argument: [sec |-> epoch seconds, ms |-> 0..999]
    tz,         \* the environment's local-time offset from UTC, in minutes
    mem,        \* the byte stores: "blob" (the Blob's bytes) and "data" (the
                \* ArrayBuffer under the injector's Uint8Array `data`)
    data,       \* the store the injector's Uint8Array `data` is a view of
    pc,         \* position of the call: "start", "await", "done"
    result,     \* what the returned promise settled with
    calls,      \* number of completed invocations with these arguments
    first,      \* the settled result of the first invocation, and its tz
    tasks,      \* concurrent calls of addImageMetadata: for each call its
                \* arguments, its position, its result
    heap,       \* the ArrayBuffers the concurrent calls work on
    pageUrl,    \* createJpegExifSegment with two URLs: the page's URL,
    imageUrl,   \* the image's URL,
    saveDate,   \* the date of the save,
    builtSegment, \* and the APP1 segment built, <<>> before the call
    duplicateMode,   \* chrome.storage.sync: duplicateMode
    imageHashes,     \* chrome.storage.local: imageHashes, an entry per hash
    lastHashCleanup, \* chrome.storage.local: lastHashCleanup
    pendingSave,     \* chrome.storage.local: pendingSave
    now,             \* Date.now(), in minutes
    ops,             \* the runs of saveToDestination and retryPendingSave
    uploads,         \* the files each provider has saved, counted
    started,         \* how many runs and clock steps there have been
    destinations,    \* chrome.storage.sync: destinations
    schemaCalls,     \* the calls of the functions of storage-schema.js
    schemaStarted,   \* how many of them there have been
    tokens,          \* chrome.storage.local: tokens
    refreshes,       \* the runs of proactiveTokenRefresh
    notifications,   \* the notifications created, counted
    xmpArgument,     \* createWebpXmpChunk: its argument,
    xmpReturned,     \* and the chunk it returned, <<>> before the call
    segmentUrl,      \* createJpegExifSegment: its url,
    segmentDate,     \* its datetime,
    segmentBuilt,    \* and the segment it returned, <<>> before the call
    jpeg,            \* addJpegMetadata called on what it returned: the bytes given to
                     \* the first call and then those it returned, the calls made,
                     \* and whether every further call returned these bytes again
    menu,            \* the items of the context menu, in the order of their creation
    rebuilds,        \* the runs of rebuildContextMenu
    selectedFolder,  \* chrome.storage.sync: the folder of version 1
    storageVersion,  \* chrome.storage.sync: the version of the schema; 0 when not stored
    migration        \* the call of migrateFromLegacy in onInstalled

\* the variables of the single call of addImageMetadata
metadataVars == <<input, blob, url, datetime, tz, mem, data, pc, result, calls, first>>
\* the variables of the concurrent calls
taskVars == <<tasks, heap>>

\* the variables of the call of createJpegExifSegment with two URLs
exifVars == <<pageUrl, imageUrl, saveDate, builtSegment>>

\* the variables of the saves
saveVars == <<duplicateMode, imageHashes, lastHashCleanup, pendingSave, now, ops,
              uploads, started>>

\* the variables of the destinations
schemaVars == <<destinations, schemaCalls, schemaStarted>>

\* the variables of the token refresh
tokenVars == <<tokens, refreshes, notifications>>

\* the variables of the call of createWebpXmpChunk
xmpVars == <<xmpArgument, xmpReturned>>

\* the variables of the call of createJpegExifSegment
segmentVars == <<segmentUrl, segmentDate, segmentBuilt, jpeg>>

\* the variables of the context menu
menuVars == <<menu, rebuilds, selectedFolder, storageVersion, migration>>

vars == <<metadataVars, taskVars, exifVars, saveVars, schemaVars, tokenVars, xmpVars, segmentVars, menuVars>>

\* what the steps of each part leave alone
exceptMetadata == <<taskVars, exifVars, saveVars, schemaVars, tokenVars, xmpVars, segmentVars, menuVars>>
exceptTasks == <<metadataVars, exifVars, saveVars, schemaVars, tokenVars, xmpVars, segmentVars, menuVars>>
exceptExif == <<metadataVars, taskVars, saveVars, schemaVars, tokenVars, xmpVars, segmentVars, menuVars>>
exceptSave == <<metadataVars, taskVars, exifVars, schemaVars, tokenVars, xmpVars, segmentVars, menuVars>>
exceptSchema == <<metadataVars, taskVars, exifVars, saveVars, tokenVars, xmpVars, segmentVars, menuVars>>
exceptTokens == <<metadataVars, taskVars, exifVars, saveVars, schemaVars, xmpVars, segmentVars, menuVars>>
exceptXmp == <<metadataVars, taskVars, exifVars, saveVars, schemaVars, tokenVars, segmentVars, menuVars>>
exceptSegment == <<metadataVars, taskVars, exifVars, saveVars, schemaVars, tokenVars, xmpVars, menuVars>>
exceptMenu == <<metadataVars, taskVars, exifVars, saveVars, schemaVars, tokenVars, xmpVars, segmentVars>>
exceptSchemaAndMenu == <<metadataVars, taskVars, exifVars, saveVars, tokenVars, xmpVars, segmentVars>>

-----------------------------------------------------------------------------
(* Bounds of the model *)

\* longest url, in UTF-16 code units
MaxUrlLen == 1
\* every base buffer is also offered with its last 0..MaxTrunc bytes cut off
MaxTrunc == 2
\* invocations made with the same arguments
MaxCalls == 2
\* calls of addImageMetadata in flight at the same time
MaxTasks == 2
\* length of the page URL and of the image URL, in UTF-16 code units
MaxPartLen == 2
\* runs of saveToDestination and retryPendingSave in flight at the same time
MaxOps == 2
\* runs started and clock steps taken, in all
MaxStarted == 3
\* stands for MAX_STORED_HASHES = 10000 of background.js
MAX_STORED_HASHES == 2
\* stands for MAX_DESTINATIONS = 10 of storage-schema.js
MAX_DESTINATIONS == 2
\* calls of the functions of storage-schema.js in flight at the same time
MaxSchemaCalls == 2
\* runs of proactiveTokenRefresh in flight at the same time
MaxRefreshes == 2
\* longest XMP packet handed to createWebpXmpChunk, in UTF-16 code units
MaxPacketLen == 6
\* createJpegExifSegment is called with every url of up to MaxShortUrl
\* characters, and with urls of MaxLongUrl - 1 and MaxLongUrl characters
MaxShortUrl == 30
MaxLongUrl == 32676
\* runs of rebuildContextMenu in flight at the same time
MaxRebuilds == 2

-----------------------------------------------------------------------------
(* JavaScript typed-array and integer semantics *)

Byte == 0..255

\* data[i]: the byte, or undefined (Undefined) outside 0..length-1
Undefined == -1
At(buf, i) == IF i >= 0 /\ i < Len(buf) THEN buf[i + 1] ELSE Undefined

\* ToInt32 of data[i] inside a bitwise expression: undefined becomes 0
Bits(buf, i) == IF i >= 0 /\ i < Len(buf) THEN buf[i + 1] ELSE 0

\* (b3 << 24) | (b2 << 16) | (b1 << 8) | b0 as a signed 32-bit integer
Int32Of(b3, b2, b1, b0) ==
    (IF b3 >= 128 THEN b3 - 256 ELSE b3) * 16777216 + b2 * 65536 + b1 * 256 + b0

\* a % b of JavaScript for b > 0: the sign follows the dividend
JsRem(a, b) == IF a >= 0 \/ a % b = 0 THEN a % b ELSE (a % b) - b

\* TypedArray.prototype.slice(start, end): negative indices count from the
\* end, both are clamped to 0..length
RelIndex(len, i) == IF i < 0 THEN (IF len + i < 0 THEN 0 ELSE len + i)
                    ELSE (IF i > len THEN len ELSE i)
Slice(buf, start, end) ==
    SubSeq(buf, RelIndex(Len(buf), start) + 1, RelIndex(Len(buf), end))
SliceFrom(buf, start) == Slice(buf, start, Len(buf))

\* new Uint8Array(n): n zero bytes; a negative length is a RangeError
Zeros(n) == [i \in 1..n |-> 0]
NewArray(n) == IF n < 0 THEN [thrown |-> TRUE, buf |-> <<>>]
               ELSE [thrown |-> FALSE, buf |-> Zeros(n)]

\* variant: set writes the bytes that fit instead of throwing
SetAtClipped(target, source, offset) ==
    IF target.thrown THEN target
    ELSE [thrown |-> FALSE,
          buf |-> [i \in 1..Len(target.buf) |->
                      IF i > offset /\ i <= offset + Len(source)
                      THEN source[i - offset] ELSE target.buf[i]]]

\* target.set(source, offset) on a construction in progress: RangeError when
\* offset < 0 or offset + source.length > target.length; once an exception
\* is thrown nothing after it runs
SetAt(target, source, offset) ==
    IF target.thrown THEN target
    ELSE IF offset < 0 \/ offset + Len(source) > Len(target.buf)
         THEN [thrown |-> TRUE, buf |-> target.buf]
         ELSE [thrown |-> FALSE,
               buf |-> [i \in 1..Len(target.buf) |->
                           IF i > offset /\ i <= offset + Len(source)
                           THEN source[i - offset] ELSE target.buf[i]]]

\* exclusive or of two numbers below 2^n
RECURSIVE XorN(_, _, _)
XorN(a, b, n) ==
    IF n = 0 THEN 0
    ELSE (((a % 2) + (b % 2)) % 2) + 2 * XorN(a \div 2, b \div 2, n - 1)
Xor4 == [a \in 0..15 |-> [b \in 0..15 |-> XorN(a, b, 4)]]
Xor8(a, b) == (16 * Xor4[a \div 16][b \div 16]) + Xor4[a % 16][b % 16]

\* a | b on bytes
RECURSIVE OrN(_, _, _)
OrN(a, b, n) ==
    IF n = 0 THEN 0
    ELSE (IF a % 2 = 1 \/ b % 2 = 1 THEN 1 ELSE 0) + 2 * OrN(a \div 2, b \div 2, n - 1)
Or8(a, b) == OrN(a, b, 8)

\* 32-bit words as <<b3, b2, b1, b0>>
Xor32(v, w) == <<Xor8(v[1], w[1]), Xor8(v[2], w[2]), Xor8(v[3], w[3]), Xor8(v[4], w[4])>>
\* w >>> 1
Shr1(w) == <<w[1] \div 2,
             ((w[1] % 2) * 128) + (w[2] \div 2),
             ((w[2] % 2) * 128) + (w[3] \div 2),
             ((w[3] % 2) * 128) + (w[4] \div 2)>>
\* w >>> 8
Shr8(w) == <<0, w[1], w[2], w[3]>>

\* TextEncoder().encode(str): UTF-8 of a string of BMP code units that are
\* not surrogates
Utf8Unit(c) ==
    IF c < 128 THEN <<c>>
    ELSE IF c < 2048 THEN <<192 + (c \div 64), 128 + (c % 64)>>
    ELSE <<224 + (c \div 4096), 128 + ((c \div 64) % 64), 128 + (c % 64)>>
\* the units lo..hi of str, encoded and concatenated
RECURSIVE Utf8Range(_, _, _)
Utf8Range(str, lo, hi) ==
    IF lo > hi THEN <<>>
    ELSE IF lo = hi THEN Utf8Unit(str[lo])
    ELSE LET mid == (lo + hi) \div 2
         IN  Utf8Range(str, lo, mid) \o Utf8Range(str, mid + 1, hi)
TextEncode(str) == Utf8Range(str, 1, Len(str))

\* n.toString() for a non-negative integer, as code units
RECURSIVE Digits(_)
Digits(n) == IF n < 10 THEN <<48 + n>> ELSE Digits(n \div 10) \o <<48 + (n % 10)>>
\* n.toString().padStart(width, '0')
RECURSIVE PadStart(_, _)
PadStart(str, width) == IF Len(str) >= width THEN str ELSE PadStart(<<48>> \o str, width)
Pad2(n) == PadStart(Digits(n), 2)

-----------------------------------------------------------------------------
(* The Date object: calendar fields of an instant *)

\* year, month and day of the proleptic Gregorian calendar, from the number
\* of days since 1970-01-01 (the calendar the Date getters use)
CivilOfMonth(era, yoe, doy, mp) ==
    [year |-> yoe + era * 400 + (IF mp >= 10 THEN 1 ELSE 0),
     month |-> IF mp < 10 THEN mp + 3 ELSE mp - 9,
     day |-> doy - (153 * mp + 2) \div 5 + 1]
CivilOfDayOfYear(era, yoe, doy) == CivilOfMonth(era, yoe, doy, (5 * doy + 2) \div 153)
CivilOfYearOfEra(era, doe, yoe) ==
    CivilOfDayOfYear(era, yoe, doe - (365 * yoe + yoe \div 4 - yoe \div 100))
CivilOfDayOfEra(era, doe) ==
    CivilOfYearOfEra(era, doe,
        (doe - doe \div 1460 + doe \div 36524 - doe \div 146096) \div 365)
CivilFromDays(days) ==
    CivilOfDayOfEra((days + 719468) \div 146097, (days + 719468) % 146097)

\* the fields the getters return for an instant given in seconds
FieldsOf(c, days, tod) ==
    [year |-> c.year, month |-> c.month, day |-> c.day,
     hours |-> tod \div 3600, minutes |-> (tod \div 60) % 60, seconds |-> tod % 60,
     weekday |-> (days + 4) % 7]
DateFields(sec) == FieldsOf(CivilFromDays(sec \div 86400), sec \div 86400, sec % 86400)

\* variant: the clock is read at each call instead of the datetime argument
UtcFieldsOfClock(dt) == DateFields(dt.sec + calls)

\* getUTCFullYear() ... getUTCSeconds(), getUTCDay()
UtcFields(dt) == DateFields(dt.sec)
\* getFullYear() ... getSeconds(): the same instant in the environment's zone
LocalFields(dt, zone) == DateFields(dt.sec + zone * 60)

Colon == <<58>>
Space == <<32>>

\* HH:MM:SS of the fields f
ClockOf(f) == Pad2(f.hours) \o Colon \o Pad2(f.minutes) \o Colon \o Pad2(f.seconds)

\* datetime.toISOString(): YYYY-MM-DDTHH:mm:ss.sssZ (years 0..9999)
IsoOf(f, ms) ==
    PadStart(Digits(f.year), 4) \o <<45>> \o Pad2(f.month) \o <<45>> \o Pad2(f.day)
    \o <<84>> \o ClockOf(f) \o <<46>> \o PadStart(Digits(ms), 3) \o <<90>>
ToISOString(dt) == IsoOf(UtcFields(dt), dt.ms)

\* formatExifDatetime: YYYY:MM:DD HH:MM:SS from the local-time getters
ExifDatetimeOf(f) ==
    Digits(f.year) \o Colon \o Pad2(f.month) \o Colon \o Pad2(f.day) \o Space \o ClockOf(f)
FormatExifDatetime(dt, zone) == ExifDatetimeOf(LocalFields(dt, zone))

DayNames ==
    <<<<83, 117, 110>>, <<77, 111, 110>>, <<84, 117, 101>>, <<87, 101, 100>>,
      <<84, 104, 117>>, <<70, 114, 105>>, <<83, 97, 116>>>>
MonthNames ==
    <<<<74, 97, 110>>, <<70, 101, 98>>, <<77, 97, 114>>, <<65, 112, 114>>,
      <<77, 97, 121>>, <<74, 117, 110>>, <<74, 117, 108>>, <<65, 117, 103>>,
      <<83, 101, 112>>, <<79, 99, 116>>, <<78, 111, 118>>, <<68, 101, 99>>>>
\* ' GMT'
StrGMT == <<32, 71, 77, 84>>

\* formatRfc1123Date: new Date(datetime.toUTCString()) drops the milliseconds,
\* the UTC getters give "Mon, 16 Dec 2025 14:30:45 GMT"
Rfc1123Of(f) ==
    DayNames[f.weekday + 1] \o <<44, 32>> \o Pad2(f.day) \o Space
    \o MonthNames[f.month] \o Space \o Digits(f.year) \o Space \o ClockOf(f) \o StrGMT
FormatRfc1123Date(dt) == Rfc1123Of(UtcFields([sec |-> dt.sec, ms |-> 0]))

-----------------------------------------------------------------------------
(* CRC-32 of PNG chunks *)

Poly == <<237, 184, 131, 32>>      \* 0xEDB88320
AllOnes == <<255, 255, 255, 255>>  \* 0xFFFFFFFF

\* the inner loop of the table: eight times c = (c & 1) ? poly ^ (c >>> 1) : c >>> 1
RECURSIVE CrcTableEntry(_, _)
CrcTableEntry(c, j) ==
    IF j = 0 THEN c
    ELSE CrcTableEntry(IF c[4] % 2 = 1 THEN Xor32(Poly, Shr1(c)) ELSE Shr1(c), j - 1)
crcTable == [i \in 0..255 |-> CrcTableEntry(<<0, 0, 0, i>>, 8)]

\* one turn of the loop: crc = crcTable[(crc ^ data[i]) & 0xFF] ^ (crc >>> 8)
CrcStep(crc, byte) == Xor32(crcTable[Xor8(crc[4], byte)], Shr8(crc))

\* the loop over data[lo-1 .. hi-1], entered with crc; the first half is
\* run to its value before the second half starts
RECURSIVE CrcLoop(_, _, _, _)
CrcLoop(bytes, lo, hi, crc) ==
    IF lo > hi THEN crc
    ELSE IF lo = hi THEN CrcStep(crc, bytes[lo])
    ELSE LET mid == (lo + hi) \div 2
         IN  CHOOSE r \in {CrcLoop(bytes, mid + 1, hi, left) :
                              left \in {CrcLoop(bytes, lo, mid, crc)}} : TRUE

\* variant: the accumulator returned without the final inversion
CrcFinalMissing(bytes) == CrcLoop(bytes, 1, Len(bytes), AllOnes)

\* calculateCrc32: crc = 0xFFFFFFFF, the loop, (crc ^ 0xFFFFFFFF) >>> 0
CalculateCrc32(bytes) == Xor32(CrcLoop(bytes, 1, Len(bytes), AllOnes), AllOnes)

-----------------------------------------------------------------------------
(* JPEG: EXIF APP1 segment *)

\* 'Source: '
StrSourcePrefix == <<83, 111, 117, 114, 99, 101, 58, 32>>
\* "ASCII\0\0\0"
userCommentPrefix == <<65, 83, 67, 73, 73, 0, 0, 0>>
\* "Exif\0\0"
ExifHeader == <<69, 120, 105, 102, 0, 0>>

\* big-endian bytes of (v >> 8) & 0xFF, v & 0xFF and of the four-byte form
BE16(v) == <<(v \div 256) % 256, v % 256>>
BE32(v) == <<(v \div 16777216) % 256, (v \div 65536) % 256, (v \div 256) % 256, v % 256>>

\* writeIfdEntryBE: the 12 bytes written at ifd[offset ..]
WriteIfdEntryBE(tag, type, count, value) ==
    BE16(tag) \o BE16(type) \o BE32(count) \o BE32(value)

\* the offsets and counts buildTiffStructure computes from descStr.length,
\* dateStr.length (both in UTF-16 code units) and the UserComment length
TiffLayout(descLength, dateLength, userCommentLength) ==
    [ifd0Offset |-> 8,
     exifIfdOffset |-> 8 + (2 + (3 * 12) + 4),
     descCount |-> descLength,
     descOffset |-> 8 + (2 + (3 * 12) + 4) + (2 + (3 * 12) + 4),
     dateCount |-> dateLength,
     dateOffset |-> 8 + (2 + (3 * 12) + 4) + (2 + (3 * 12) + 4) + descLength,
     dateOrigOffset |->
         8 + (2 + (3 * 12) + 4) + (2 + (3 * 12) + 4) + descLength + dateLength,
     dateDigOffset |->
         8 + (2 + (3 * 12) + 4) + (2 + (3 * 12) + 4) + descLength + 2 * dateLength,
     userCommentLength |-> userCommentLength,
     userCommentOffset |->
         8 + (2 + (3 * 12) + 4) + (2 + (3 * 12) + 4) + descLength + 3 * dateLength]

\* the 8-byte TIFF header: "MM", 0x002A, offset of IFD0
TiffHeader(lay) == <<77, 77, 0, 42>> \o BE32(lay.ifd0Offset)
\* IFD0: ImageDescription, DateTime, ExifIFDPointer, next-IFD pointer 0
TiffIfd0(lay) ==
    BE16(3)
    \o WriteIfdEntryBE(270, 2, lay.descCount, lay.descOffset)
    \o WriteIfdEntryBE(306, 2, lay.dateCount, lay.dateOffset)
    \o WriteIfdEntryBE(34665, 4, 1, lay.exifIfdOffset)
    \o <<0, 0, 0, 0>>
\* EXIF sub-IFD: DateTimeOriginal, DateTimeDigitized, UserComment, pointer 0
TiffExifIfd(lay) ==
    BE16(3)
    \o WriteIfdEntryBE(36867, 2, lay.dateCount, lay.dateOrigOffset)
    \o WriteIfdEntryBE(36868, 2, lay.dateCount, lay.dateDigOffset)
    \o WriteIfdEntryBE(37510, 7, lay.userCommentLength, lay.userCommentOffset)
    \o <<0, 0, 0, 0>>
\* variant: the UserComment text is written with its terminator
TiffAssembleTerminated(lay, descBytes, dateBytes, userCommentText) ==
    TiffHeader(lay) \o TiffIfd0(lay) \o TiffExifIfd(lay)
    \o descBytes \o dateBytes \o dateBytes \o dateBytes
    \o userCommentPrefix \o descBytes

\* result: header, IFD0, EXIF sub-IFD, then the data area
TiffAssemble(lay, descBytes, dateBytes, userCommentText) ==
    TiffHeader(lay) \o TiffIfd0(lay) \o TiffExifIfd(lay)
    \o descBytes \o dateBytes \o dateBytes \o dateBytes
    \o userCommentPrefix \o userCommentText

\* variant: the datetime is stored without its terminator
BuildTiffStructureDateUnterminated(description, exifDatetime) ==
    TiffAssemble(TiffLayout(Len(description \o <<0>>), Len(exifDatetime),
                            Len(userCommentPrefix) + Len(TextEncode(description))),
                 TextEncode(description \o <<0>>),
                 TextEncode(exifDatetime),
                 TextEncode(description))

\* buildTiffStructure(description, datetime)
BuildTiffStructure(description, exifDatetime) ==
    TiffAssemble(TiffLayout(Len(description \o <<0>>), Len(exifDatetime \o <<0>>),
                            Len(userCommentPrefix) + Len(TextEncode(description))),
                 TextEncode(description \o <<0>>),
                 TextEncode(exifDatetime \o <<0>>),
                 TextEncode(description))

\* segment: FF E1, 16-bit length 2 + 6 + tiffData.length, "Exif\0\0", TIFF data
ExifSegmentOf(tiffData) ==
    <<255, 225>> \o BE16(2 + 6 + Len(tiffData)) \o ExifHeader \o tiffData
\* createJpegExifSegment(url, datetime)
CreateJpegExifSegment(u, dt, zone) ==
    ExifSegmentOf(BuildTiffStructure(StrSourcePrefix \o u, FormatExifDatetime(dt, zone)))

\* variant: an APP0 segment is not skipped
JpegInsertPosAfterSoi(d) == 2

\* insertPos: 2, or 4 + the declared APP0 length when bytes 2-3 are FF E0
JpegInsertPos(d) ==
    IF At(d, 2) = 255 /\ At(d, 3) = 224
    THEN 4 + (Bits(d, 4) * 256 + Bits(d, 5))
    ELSE 2

\* dataToUse: data without the APP1 segment found at insertPos
JpegWithoutApp1(d, insertPos) ==
    IF At(d, insertPos) = 255 /\ At(d, insertPos + 1) = 225
    THEN Slice(d, 0, insertPos)
         \o SliceFrom(d, insertPos + 2
                         + (Bits(d, insertPos + 2) * 256 + Bits(d, insertPos + 3)))
    ELSE d
JpegDataToUse(d) == JpegWithoutApp1(d, JpegInsertPos(d))

\* variant: the JPEG injector without its signature check
JpegSignatureUnchecked(d) == TRUE

JpegSignatureOk(d) == At(d, 0) = 255 /\ At(d, 1) = 216

\* An injector's outcome: it threw, it returned the Blob it was given
\* (ret = "blob"), or it returned new Blob([newData], {type}) (ret = "new")
Threw == [thrown |-> TRUE, ret |-> "none", bytes |-> <<>>, type |-> ""]
ReturnBlob == [thrown |-> FALSE, ret |-> "blob", bytes |-> <<>>, type |-> ""]
NewBlob(built, type) ==
    IF built.thrown THEN Threw
    ELSE [thrown |-> FALSE, ret |-> "new", bytes |-> built.buf, type |-> type]

\* newData: dataToUse with exifSegment spliced in at insertPos
JpegSplice(dataToUse, exifSegment, insertPos) ==
    LET n0 == NewArray(Len(dataToUse) + Len(exifSegment))
        n1 == SetAt(n0, Slice(dataToUse, 0, insertPos), 0)
        n2 == SetAt(n1, exifSegment, insertPos)
    IN  SetAt(n2, SliceFrom(dataToUse, insertPos), insertPos + Len(exifSegment))

\* variant: the new Blob is built without a type
AddJpegMetadataUntyped(d, u, dt, zone) ==
    IF ~JpegSignatureOk(d) THEN ReturnBlob
    ELSE NewBlob(JpegSplice(JpegDataToUse(d), CreateJpegExifSegment(u, dt, zone),
                            JpegInsertPos(d)),
                 "")

\* addJpegMetadata, after the await of blob.arrayBuffer()
AddJpegMetadata(d, u, dt, zone) ==
    IF ~JpegSignatureOk(d) THEN ReturnBlob
    ELSE NewBlob(JpegSplice(JpegDataToUse(d), CreateJpegExifSegment(u, dt, zone),
                            JpegInsertPos(d)),
                 "image/jpeg")

-----------------------------------------------------------------------------
(* PNG: tEXt chunks *)

pngSignature == <<137, 80, 78, 71, 13, 10, 26, 10>>
\* 'Source'
KeywordSource ==
    <<83, 111, 117, 114, 99, 101>>

\* 'Creation Time'
KeywordCreationTime ==
    <<67, 114, 101, 97, 116, 105, 111, 110, 32, 84, 105, 109, 101>>

\* 'Comment'
KeywordComment ==
    <<67, 111, 109, 109, 101, 110, 116>>

\* 'tEXt'
ChunkTypeTEXt ==
    <<116, 69, 88, 116>>

\* 'Saved from: '
StrSavedFrom ==
    <<83, 97, 118, 101, 100, 32, 102, 114, 111, 109, 58, 32>>

\* ' on '
StrOn ==
    <<32, 111, 110, 32>>

PngSignatureOk(d) == \A i \in 0..7 : At(d, i) = pngSignature[i + 1]

\* chunk: length, 'tEXt', data, CRC of type + data
PngChunkOf(chunkData) ==
    BE32(Len(chunkData)) \o ChunkTypeTEXt \o chunkData
    \o CalculateCrc32(ChunkTypeTEXt \o chunkData)
\* createPngTextChunk(keyword, text): the data is keyword 00 text
CreatePngTextChunk(keyword, text) ==
    PngChunkOf(TextEncode(keyword) \o <<0>> \o TextEncode(text))

\* the three chunks, in the order addPngMetadata writes them
PngMetadataChunks(u, dt) ==
    <<CreatePngTextChunk(KeywordSource, u),
      CreatePngTextChunk(KeywordCreationTime, FormatRfc1123Date(dt)),
      CreatePngTextChunk(KeywordComment,
                         StrSavedFrom \o u \o StrOn \o ToISOString(dt))>>

\* variant: the insertion point without the 4 bytes of the IHDR CRC
PngInsertPosNoCrc(d) ==
    8 + 4 + 4 + Int32Of(Bits(d, 8), Bits(d, 9), Bits(d, 10), Bits(d, 11))

\* pos: 8, then length + type + data + CRC of the first chunk
PngInsertPos(d) ==
    8 + 4 + 4 + Int32Of(Bits(d, 8), Bits(d, 9), Bits(d, 10), Bits(d, 11)) + 4

\* newData: data with the three chunks spliced in at pos
PngSplice(d, chunks, pos) ==
    LET n0 == NewArray(Len(d) + (Len(chunks[1]) + Len(chunks[2]) + Len(chunks[3])))
        n1 == SetAt(n0, Slice(d, 0, pos), 0)
        n2 == SetAt(n1, chunks[1], pos)
        n3 == SetAt(n2, chunks[2], pos + Len(chunks[1]))
        n4 == SetAt(n3, chunks[3], pos + Len(chunks[1]) + Len(chunks[2]))
    IN  SetAt(n4, SliceFrom(d, pos),
              pos + Len(chunks[1]) + Len(chunks[2]) + Len(chunks[3]))

\* addPngMetadata, after the await of blob.arrayBuffer()
AddPngMetadata(d, u, dt) ==
    IF ~PngSignatureOk(d) THEN ReturnBlob
    ELSE NewBlob(PngSplice(d, PngMetadataChunks(u, dt), PngInsertPos(d)), "image/png")

-----------------------------------------------------------------------------
(* WebP: XMP chunk, VP8X chunk *)

\* XMP template text: 's.adobe.com/xap/1.0/"> /       <dc:source>'
XmpPart1 ==
    <<60, 63, 120, 112, 97, 99, 107, 101, 116, 32, 98, 101, 103, 105, 110, 61, 34, 34, 32,
    105, 100, 61, 34, 87, 53, 77, 48, 77, 112, 67, 101, 104, 105, 72, 122, 114, 101, 83,
    122, 78, 84, 99, 122, 107, 99, 57, 100, 34, 63, 62, 10, 60, 120, 58, 120, 109, 112,
    109, 101, 116, 97, 32, 120, 109, 108, 110, 115, 58, 120, 61, 34, 97, 100, 111, 98, 101,
    58, 110, 115, 58, 109, 101, 116, 97, 47, 34, 62, 10, 32, 32, 60, 114, 100, 102, 58, 82,
    68, 70, 32, 120, 109, 108, 110, 115, 58, 114, 100, 102, 61, 34, 104, 116, 116, 112, 58,
    47, 47, 119, 119, 119, 46, 119, 51, 46, 111, 114, 103, 47, 49, 57, 57, 57, 47, 48, 50,
    47, 50, 50, 45, 114, 100, 102, 45, 115, 121, 110, 116, 97, 120, 45, 110, 115, 35, 34,
    62, 10, 32, 32, 32, 32, 60, 114, 100, 102, 58, 68, 101, 115, 99, 114, 105, 112, 116,
    105, 111, 110, 32, 114, 100, 102, 58, 97, 98, 111, 117, 116, 61, 34, 34, 10, 32, 32,
    32, 32, 32, 32, 120, 109, 108, 110, 115, 58, 100, 99, 61, 34, 104, 116, 116, 112, 58,
    47, 47, 112, 117, 114, 108, 46, 111, 114, 103, 47, 100, 99, 47, 101, 108, 101, 109,
    101, 110, 116, 115, 47, 49, 46, 49, 47, 34, 10, 32, 32, 32, 32, 32, 32, 120, 109, 108,
    110, 115, 58, 120, 109, 112, 61, 34, 104, 116, 116, 112, 58, 47, 47, 110, 115, 46, 97,
    100, 111, 98, 101, 46, 99, 111, 109, 47, 120, 97, 112, 47, 49, 46, 48, 47, 34, 62, 10,
    32, 32, 32, 32, 32, 32, 60, 100, 99, 58, 115, 111, 117, 114, 99, 101, 62>>

\* XMP template text: 'urce> /       <dc:description>Saved from: '
XmpPart2 ==
    <<60, 47, 100, 99, 58, 115, 111, 117, 114, 99, 101, 62, 10, 32, 32, 32, 32, 32, 32, 60,
    100, 99, 58, 100, 101, 115, 99, 114, 105, 112, 116, 105, 111, 110, 62, 83, 97, 118,
    101, 100, 32, 102, 114, 111, 109, 58, 32>>

\* XMP template text: '</dc:description> /       <xmp:CreateDate>'
XmpPart3 ==
    <<60, 47, 100, 99, 58, 100, 101, 115, 99, 114, 105, 112, 116, 105, 111, 110, 62, 10,
    32, 32, 32, 32, 32, 32, 60, 120, 109, 112, 58, 67, 114, 101, 97, 116, 101, 68, 97, 116,
    101, 62>>

\* XMP template text: '</xmp:CreateDate> /       <xmp:ModifyDate>'
XmpPart4 ==
    <<60, 47, 120, 109, 112, 58, 67, 114, 101, 97, 116, 101, 68, 97, 116, 101, 62, 10, 32,
    32, 32, 32, 32, 32, 60, 120, 109, 112, 58, 77, 111, 100, 105, 102, 121, 68, 97, 116,
    101, 62>>

\* XMP template text: 'df:RDF> / </x:xmpmeta> / <?xpacket end="w"?>'
XmpPart5 ==
    <<60, 47, 120, 109, 112, 58, 77, 111, 100, 105, 102, 121, 68, 97, 116, 101, 62, 10, 32,
    32, 32, 32, 60, 47, 114, 100, 102, 58, 68, 101, 115, 99, 114, 105, 112, 116, 105, 111,
    110, 62, 10, 32, 32, 60, 47, 114, 100, 102, 58, 82, 68, 70, 62, 10, 60, 47, 120, 58,
    120, 109, 112, 109, 101, 116, 97, 62, 10, 60, 63, 120, 112, 97, 99, 107, 101, 116, 32,
    101, 110, 100, 61, 34, 119, 34, 63, 62>>

\* '&amp;'
StrAmp ==
    <<38, 97, 109, 112, 59>>

\* '&lt;'
StrLt ==
    <<38, 108, 116, 59>>

\* '&gt;'
StrGt ==
    <<38, 103, 116, 59>>

\* '&quot;'
StrQuot ==
    <<38, 113, 117, 111, 116, 59>>

\* '&apos;'
StrApos ==
    <<38, 97, 112, 111, 115, 59>>

\* 'XMP '
ChunkIdXMP ==
    <<88, 77, 80, 32>>

\* 'VP8X'
TagVP8X ==
    <<86, 80, 56, 88>>

\* 'VP8 '
TagVP8 ==
    <<86, 80, 56, 32>>

\* 'VP8L'
TagVP8L ==
    <<86, 80, 56, 76>>

\* escapeXml: & < > " ' are replaced by their entities
EscapeXmlUnit(c) ==
    IF c = 38 THEN StrAmp
    ELSE IF c = 60 THEN StrLt
    ELSE IF c = 62 THEN StrGt
    ELSE IF c = 34 THEN StrQuot
    ELSE IF c = 39 THEN StrApos
    ELSE <<c>>
RECURSIVE EscapeXmlRange(_, _, _)
EscapeXmlRange(str, lo, hi) ==
    IF lo > hi THEN <<>>
    ELSE IF lo = hi THEN EscapeXmlUnit(str[lo])
    ELSE LET mid == (lo + hi) \div 2
         IN  EscapeXmlRange(str, lo, mid) \o EscapeXmlRange(str, mid + 1, hi)
escapeXml(str) == EscapeXmlRange(str, 1, Len(str))

\* the packet text around the escaped url and the ISO date
XmpOf(escapedUrl, isoDate) ==
    XmpPart1 \o escapedUrl \o XmpPart2 \o escapedUrl \o XmpPart3
    \o isoDate \o XmpPart4 \o isoDate \o XmpPart5
\* createXmpMetadata(url, datetime)
CreateXmpMetadata(u, dt) == XmpOf(escapeXml(u), ToISOString(dt))

\* little-endian bytes of v & 0xFF, (v >> 8) & 0xFF, ...
LE24(v) == <<v % 256, (v \div 256) % 256, (v \div 65536) % 256>>
LE32(v) == <<v % 256, (v \div 256) % 256, (v \div 65536) % 256, (v \div 16777216) % 256>>

\* chunk: 'XMP ', paddedLength, the bytes zero-padded to paddedLength
XmpChunkOf(xmpBytes) ==
    ChunkIdXMP \o LE32(Len(xmpBytes) + (Len(xmpBytes) % 2))
    \o xmpBytes \o Zeros(Len(xmpBytes) % 2)
\* createWebpXmpChunk(xmpString)
CreateWebpXmpChunk(xmpString) == XmpChunkOf(TextEncode(xmpString))

\* String.fromCharCode(data[12], data[13], data[14], data[15])
WebpChunkType(d) == <<Bits(d, 12), Bits(d, 13), Bits(d, 14), Bits(d, 15)>>

NoDimensions == [ok |-> FALSE, width |-> 0, height |-> 0]

\* variant: the dimensions are read without looking for the sync code or the
\* signature byte
GetWebpDimensionsUnchecked(d, chunkType) ==
    [ok |-> TRUE,
     width |-> (Bits(d, 26) + Bits(d, 27) * 256) % 16384,
     height |-> (Bits(d, 28) + Bits(d, 29) * 256) % 16384]

\* getWebpDimensions: null unless the VP8 sync code or the VP8L signature
\* byte is where it is looked for
GetWebpDimensions(d, chunkType) ==
    IF chunkType = TagVP8
    THEN IF At(d, 23) = 157 /\ At(d, 24) = 1 /\ At(d, 25) = 42
         THEN [ok |-> TRUE,
               width |-> (Bits(d, 26) + Bits(d, 27) * 256) % 16384,
               height |-> (Bits(d, 28) + Bits(d, 29) * 256) % 16384]
         ELSE NoDimensions
    ELSE IF chunkType = TagVP8L
    THEN IF At(d, 20) = 47
         THEN LET lo == Bits(d, 21) + Bits(d, 22) * 256     \* bits 0..15
                  hi == Bits(d, 23) + Bits(d, 24) * 256     \* bits 16..31
              IN  [ok |-> TRUE,
                   width |-> (lo % 16384) + 1,
                   height |-> ((lo \div 16384) + (hi % 4096) * 4) + 1]
         ELSE NoDimensions
    ELSE NoDimensions

\* (v >> k) & 0xFF of a number that may be -1 (width or height 0)
ByteOf(v, k) == IF v < 0 THEN 255 ELSE (v \div k) % 256

\* createVP8XChunk: 'VP8X', size 10, flags, 3 reserved, width-1, height-1
CreateVP8XChunk(width, height, hasXmp) ==
    LET w == width - 1
        h == height - 1
    IN  TagVP8X \o <<10, 0, 0, 0>> \o <<IF hasXmp THEN 4 ELSE 0>> \o <<0, 0, 0>>
        \o <<ByteOf(w, 1), ByteOf(w, 256), ByteOf(w, 65536)>>
        \o <<ByteOf(h, 1), ByteOf(h, 256), ByteOf(h, 65536)>>

WebpSignatureOk(d) ==
    /\ At(d, 0) = 82 /\ At(d, 1) = 73 /\ At(d, 2) = 70 /\ At(d, 3) = 70
    /\ At(d, 8) = 87 /\ At(d, 9) = 69 /\ At(d, 10) = 66 /\ At(d, 11) = 80

\* the VP8X branch stores data[20] | 0x04 into data before it builds newData
WebpFlagsWritten(d) == WebpSignatureOk(d) /\ WebpChunkType(d) = TagVP8X
\* the typed array after data[20] = data[20] | 0x04 (a store outside the
\* array is ignored)
WebpDataAfter(d) ==
    IF WebpFlagsWritten(d) /\ Len(d) > 20
    THEN [d EXCEPT ![21] = Or8(d[21], 4)]
    ELSE d

\* insertPos of the VP8X branch: 12 + 8 + vp8xSize + (vp8xSize % 2)
WebpInsertPosOf(vp8xSize) == 12 + 8 + vp8xSize + JsRem(vp8xSize, 2)
WebpInsertPos(d) ==
    WebpInsertPosOf(Int32Of(Bits(d, 19), Bits(d, 18), Bits(d, 17), Bits(d, 16)))

\* variant: the RIFF size field left as the input had it
WebpSizeNotPatched(built) == built

\* bytes 4-7 of newData set to newData.length - 8, little-endian
WebpPatchSize(built) ==
    IF built.thrown THEN built
    ELSE [thrown |-> FALSE,
          buf |-> [i \in 1..Len(built.buf) |->
                      IF i >= 5 /\ i <= 8 THEN LE32(Len(built.buf) - 8)[i - 4]
                      ELSE built.buf[i]]]

\* VP8X branch: data (flags already stored) with xmpChunk spliced in
WebpSpliceExtended(d1, xmpChunk, insertPos) ==
    LET n0 == NewArray(Len(d1) + Len(xmpChunk))
        n1 == SetAt(n0, Slice(d1, 0, insertPos), 0)
        n2 == SetAt(n1, xmpChunk, insertPos)
    IN  SetAt(n2, SliceFrom(d1, insertPos), insertPos + Len(xmpChunk))

\* variant: the original chunk is appended without its 8-byte header
WebpBuildExtendedHeaderless(d, vp8xChunk, xmpChunk, originalData) ==
    LET n0 == NewArray(12 + Len(vp8xChunk) + Len(xmpChunk) + Len(originalData))
        n1 == SetAt(n0, Slice(d, 0, 12), 0)
        n2 == SetAt(n1, vp8xChunk, 12)
        n3 == SetAt(n2, xmpChunk, 12 + Len(vp8xChunk))
    IN  SetAt(n3, SliceFrom(originalData, 8), 12 + Len(vp8xChunk) + Len(xmpChunk))

\* VP8 / VP8L branch: RIFF header, VP8X chunk, XMP chunk, the original chunks
WebpBuildExtended(d, vp8xChunk, xmpChunk, originalData) ==
    LET n0 == NewArray(12 + Len(vp8xChunk) + Len(xmpChunk) + Len(originalData))
        n1 == SetAt(n0, Slice(d, 0, 12), 0)
        n2 == SetAt(n1, vp8xChunk, 12)
        n3 == SetAt(n2, xmpChunk, 12 + Len(vp8xChunk))
    IN  SetAt(n3, originalData, 12 + Len(vp8xChunk) + Len(xmpChunk))

\* the VP8 / VP8L branch once the dimensions are read
WebpConvert(d, dimensions, xmpChunk) ==
    IF ~dimensions.ok THEN ReturnBlob
    ELSE NewBlob(WebpPatchSize(
                     WebpBuildExtended(d,
                         CreateVP8XChunk(dimensions.width, dimensions.height, TRUE),
                         xmpChunk, SliceFrom(d, 12))),
                 "image/webp")

\* the branches on the chunk type at offset 12
WebpBranch(d, chunkType, xmpChunk) ==
    IF chunkType = TagVP8X
    THEN NewBlob(WebpPatchSize(
                     WebpSpliceExtended(WebpDataAfter(d), xmpChunk, WebpInsertPos(d))),
                 "image/webp")
    ELSE IF chunkType = TagVP8 \/ chunkType = TagVP8L
    THEN WebpConvert(d, GetWebpDimensions(d, chunkType), xmpChunk)
    ELSE ReturnBlob

\* addWebpMetadata, after the await of blob.arrayBuffer()
AddWebpMetadata(d, u, dt) ==
    IF ~WebpSignatureOk(d) THEN ReturnBlob
    ELSE WebpBranch(d, WebpChunkType(d), CreateWebpXmpChunk(CreateXmpMetadata(u, dt)))

-----------------------------------------------------------------------------
(* The inputs the calls are made with *)

\* the empty buffer
BufEmpty ==
    <<>>
\* GIF89a
BufGif ==
    <<71, 73, 70, 56, 57, 97>>
\* SOI EOI
JpegBare ==
    <<255, 216, 255, 217>>
\* SOI APP0(4) EOI
JpegApp0 ==
    <<255, 216, 255, 224, 0, 4, 74, 70, 255, 217>>
\* SOI, APP0 declaring 16 bytes but cut short, EOI
JpegStub ==
    <<255, 216, 255, 224, 0, 16, 74, 70, 73, 70, 0, 255, 217>>
\* SOI APP1(4) EOI
JpegApp1 ==
    <<255, 216, 255, 225, 0, 4, 69, 120, 255, 217>>
\* SOI APP0(2) APP1(3) EOI
JpegApp0App1 ==
    <<255, 216, 255, 224, 0, 2, 255, 225, 0, 3, 65, 255, 217>>
\* SOI APP1(2) APP1(3) EOI
JpegTwoApp1 ==
    <<255, 216, 255, 225, 0, 2, 255, 225, 0, 3, 88, 255, 217>>
\* SOI APP2(2) APP1(2) EOI
JpegApp2App1 ==
    <<255, 216, 255, 226, 0, 2, 255, 225, 0, 2, 255, 217>>
\* SOI, APP1 declaring more bytes than follow
JpegApp1Long ==
    <<255, 216, 255, 225, 0, 9, 65, 255, 217>>
\* SOI, APP0 declaring 65535 bytes
JpegApp0Max ==
    <<255, 216, 255, 224, 255, 255, 74, 70>>
\* signature, IHDR(13), IEND
PngMinimal ==
    <<137, 80, 78, 71, 13, 10, 26, 10, 0, 0, 0, 13, 73, 72, 68, 82, 0, 0, 0, 1, 0, 0, 0, 1,
    8, 0, 0, 0, 0, 58, 126, 155, 85, 0, 0, 0, 0, 73, 69, 78, 68, 174, 66, 96, 130>>
\* signature, IHDR(13), IDAT(2), IEND
PngWithIdat ==
    <<137, 80, 78, 71, 13, 10, 26, 10, 0, 0, 0, 13, 73, 72, 68, 82, 0, 0, 0, 1, 0, 0, 0, 1,
    8, 0, 0, 0, 0, 58, 126, 155, 85, 0, 0, 0, 2, 73, 68, 65, 84, 120, 156, 98, 164, 145,
    43, 0, 0, 0, 0, 73, 69, 78, 68, 174, 66, 96, 130>>
\* signature, first chunk of length 1, IEND
PngShortIhdr ==
    <<137, 80, 78, 71, 13, 10, 26, 10, 0, 0, 0, 1, 73, 72, 68, 82, 7, 1, 2, 3, 4, 0, 0, 0,
    0, 73, 69, 78, 68, 174, 66, 96, 130>>
\* signature and 6 more bytes
PngHeaderOnly ==
    <<137, 80, 78, 71, 13, 10, 26, 10, 0, 0, 0, 0, 73, 72>>
\* IHDR length 0x80000000
PngNegative ==
    <<137, 80, 78, 71, 13, 10, 26, 10, 128, 0, 0, 0, 73, 72, 68, 82, 0, 0, 0, 0>>
\* IHDR length 0xFFFFFFFF
PngMinusOne ==
    <<137, 80, 78, 71, 13, 10, 26, 10, 255, 255, 255, 255, 73, 72, 68, 82, 1, 2, 3, 4, 5,
    6, 7, 8>>
\* IHDR length 0x7F000000
PngHuge ==
    <<137, 80, 78, 71, 13, 10, 26, 10, 127, 0, 0, 0, 73, 72, 68, 82, 0, 0, 0, 0>>
\* IHDR(13) cut short
PngBeyond ==
    <<137, 80, 78, 71, 13, 10, 26, 10, 0, 0, 0, 13, 73, 72, 68, 82, 0, 0, 0, 1>>
\* VP8 with the sync code, 2 x 3
WebpVp8 ==
    <<82, 73, 70, 70, 24, 0, 0, 0, 87, 69, 66, 80, 86, 80, 56, 32, 12, 0, 0, 0, 16, 2, 0,
    157, 1, 42, 2, 64, 3, 0, 7, 8>>
\* VP8 without the sync code
WebpVp8NoSync ==
    <<82, 73, 70, 70, 24, 0, 0, 0, 87, 69, 66, 80, 86, 80, 56, 32, 12, 0, 0, 0, 16, 2, 0,
    157, 1, 43, 2, 64, 3, 0, 7, 8>>
\* VP8 declaring width 0
WebpVp8Zero ==
    <<82, 73, 70, 70, 24, 0, 0, 0, 87, 69, 66, 80, 86, 80, 56, 32, 12, 0, 0, 0, 16, 2, 0,
    157, 1, 42, 0, 0, 3, 0, 7, 8>>
\* VP8 ending after the sync code
WebpVp8Cut ==
    <<82, 73, 70, 70, 18, 0, 0, 0, 87, 69, 66, 80, 86, 80, 56, 32, 6, 0, 0, 0, 16, 2, 0,
    157, 1, 42>>
\* VP8L with the signature byte, 5 x 8
WebpVp8l ==
    <<82, 73, 70, 70, 18, 0, 0, 0, 87, 69, 66, 80, 86, 80, 56, 76, 6, 0, 0, 0, 47, 4, 192,
    1, 0, 9>>
\* VP8L without the signature byte
WebpVp8lBad ==
    <<82, 73, 70, 70, 18, 0, 0, 0, 87, 69, 66, 80, 86, 80, 56, 76, 6, 0, 0, 0, 46, 4, 192,
    1, 0, 9>>
\* VP8X(10) with the alpha flag, VP8
WebpVp8x ==
    <<82, 73, 70, 70, 32, 0, 0, 0, 87, 69, 66, 80, 86, 80, 56, 88, 10, 0, 0, 0, 16, 0, 0,
    0, 1, 0, 0, 2, 0, 0, 86, 80, 56, 32, 2, 0, 0, 0, 7, 8>>
\* VP8X(10) with the XMP flag, XMP, VP8
WebpVp8xXmp ==
    <<82, 73, 70, 70, 42, 0, 0, 0, 87, 69, 66, 80, 86, 80, 56, 88, 10, 0, 0, 0, 4, 0, 0, 0,
    1, 0, 0, 2, 0, 0, 88, 77, 80, 32, 2, 0, 0, 0, 97, 98, 86, 80, 56, 32, 2, 0, 0, 0, 7,
    8>>
\* VP8X(11) and its pad byte, VP8
WebpVp8xOdd ==
    <<82, 73, 70, 70, 34, 0, 0, 0, 87, 69, 66, 80, 86, 80, 56, 88, 11, 0, 0, 0, 16, 0, 0,
    0, 1, 0, 0, 2, 0, 0, 0, 0, 86, 80, 56, 32, 2, 0, 0, 0, 7, 8>>
\* VP8X declaring 0x7F000000 bytes
WebpVp8xHuge ==
    <<82, 73, 70, 70, 32, 0, 0, 0, 87, 69, 66, 80, 86, 80, 56, 88, 0, 0, 0, 127, 16, 0, 0,
    0, 1, 0, 0, 2, 0, 0, 86, 80, 56, 32, 2, 0, 0, 0, 7, 8>>
\* VP8X declaring 0xFFFFFFFF bytes
WebpVp8xMinusOne ==
    <<82, 73, 70, 70, 32, 0, 0, 0, 87, 69, 66, 80, 86, 80, 56, 88, 255, 255, 255, 255, 16,
    0, 0, 0, 1, 0, 0, 2, 0, 0, 86, 80, 56, 32, 2, 0, 0, 0, 7, 8>>
\* VP8X declaring 0x80000000 bytes
WebpVp8xNegative ==
    <<82, 73, 70, 70, 32, 0, 0, 0, 87, 69, 66, 80, 86, 80, 56, 88, 0, 0, 0, 128, 16, 0, 0,
    0, 1, 0, 0, 2, 0, 0, 86, 80, 56, 32, 2, 0, 0, 0, 7, 8>>
\* VP8X(0) and two more bytes
WebpVp8xShort ==
    <<82, 73, 70, 70, 14, 0, 0, 0, 87, 69, 66, 80, 86, 80, 56, 88, 0, 0, 0, 0, 16, 0>>
\* unknown first chunk, RIFF size field 99
WebpAlph ==
    <<82, 73, 70, 70, 99, 0, 0, 0, 87, 69, 66, 80, 65, 76, 80, 72, 2, 0, 0, 0, 1, 2, 86,
    80, 56, 32, 2, 0, 0, 0, 7, 8>>
\* RIFF container that is not WEBP
WebpWave ==
    <<82, 73, 70, 70, 4, 0, 0, 0, 87, 65, 86, 69, 1, 2>>
BaseBuffers ==
    {BufEmpty, BufGif, JpegBare, JpegApp0,
     JpegStub, JpegApp1, JpegApp0App1, JpegTwoApp1,
     JpegApp2App1, JpegApp1Long, JpegApp0Max, PngMinimal,
     PngWithIdat, PngShortIhdr, PngHeaderOnly, PngNegative,
     PngMinusOne, PngHuge, PngBeyond, WebpVp8,
     WebpVp8NoSync, WebpVp8Zero, WebpVp8Cut, WebpVp8l,
     WebpVp8lBad, WebpVp8x, WebpVp8xXmp, WebpVp8xOdd,
     WebpVp8xHuge, WebpVp8xMinusOne, WebpVp8xNegative, WebpVp8xShort,
     WebpAlph, WebpWave}

\* buf without its last k bytes
CutTail(buf, k) == SubSeq(buf, 1, IF Len(buf) > k THEN Len(buf) - k ELSE 0)
Buffers == {CutTail(b, k) : b \in BaseBuffers, k \in 0..MaxTrunc}

MediaTypes == {"image/jpeg", "image/jpg", "image/png", "image/webp", "image/gif"}

\* code units the urls are made of: '&' and U+00E9
UrlAlphabet == {38, 233}
RECURSIVE StringsUpTo(_)
StringsUpTo(n) ==
    IF n = 0 THEN {<<>>}
    ELSE LET shorter == StringsUpTo(n - 1)
         IN  shorter \cup {s \o <<c>> : s \in shorter, c \in UrlAlphabet}
Urls == StringsUpTo(MaxUrlLen)

\* 2026-01-09T14:30:45.000Z and 2025-12-31T23:59:59.999Z
Datetimes == {[sec |-> 1767969045, ms |-> 0], [sec |-> 1767225599, ms |-> 999]}

\* local-time offsets from UTC, in minutes
Zones == {0, 60}

-----------------------------------------------------------------------------
(* The call addImageMetadata(blob, url, datetime) *)

Pending == [settled |-> "pending", same |-> FALSE, bytes |-> <<>>, type |-> ""]
\* the promise is fulfilled with the Blob the caller passed in
FulfilledWithBlob(m, b) ==
    [settled |-> "fulfilled", same |-> TRUE, bytes |-> m[b.store], type |-> b.type]
\* the promise is fulfilled with a Blob built by an injector
FulfilledWithNew(o) ==
    [settled |-> "fulfilled", same |-> FALSE, bytes |-> o.bytes, type |-> o.type]
Rejected == [settled |-> "rejected", same |-> FALSE, bytes |-> <<>>, type |-> ""]

NoFirst == [result |-> Pending, tz |-> 0]

\* variant: the ArrayBuffer shares the Blob's bytes instead of copying them
ArrayBufferAliased(b) == b.store

\* blob.arrayBuffer() resolves with a new ArrayBuffer holding a copy of the
\* Blob's bytes: the store `data` is a view of
ArrayBufferStore(b) == "data"

\* the switch on blob.type
Injector(type) ==
    IF type \in {"image/jpeg", "image/jpg"} THEN "jpeg"
    ELSE IF type = "image/png" THEN "png"
    ELSE IF type = "image/webp" THEN "webp"
    ELSE "none"

\* what the injector chosen by the switch does with the bytes of `data`
InjectorOutcome(type, d, u, dt, zone) ==
    CASE Injector(type) = "jpeg" -> AddJpegMetadata(d, u, dt, zone)
      [] Injector(type) = "png" -> AddPngMetadata(d, u, dt)
      [] Injector(type) = "webp" -> AddWebpMetadata(d, u, dt)
      [] OTHER -> ReturnBlob

\* the bytes of `data` when the injector is left
InjectorDataAfter(type, d) == IF Injector(type) = "webp" THEN WebpDataAfter(d) ELSE d

\* variant: the dispatcher without its try / catch
SettleUncaught(outcome, m, b) ==
    IF outcome.thrown THEN Rejected
    ELSE IF outcome.ret = "blob" THEN FulfilledWithBlob(m, b)
    ELSE FulfilledWithNew(outcome)

\* try { return await injector } catch { return blob }
Settle(outcome, m, b) ==
    IF outcome.thrown THEN FulfilledWithBlob(m, b)
    ELSE IF outcome.ret = "blob" THEN FulfilledWithBlob(m, b)
    ELSE FulfilledWithNew(outcome)

-----------------------------------------------------------------------------
(* Each specification below runs one part of the extension; these say that *)
(* the other parts are at rest.                                            *)

\* the single call of addImageMetadata is not under way
NoSingleCall ==
    /\ input = <<>>
    /\ blob = [store |-> "blob", type |-> "image/gif"]
    /\ url = <<>>
    /\ datetime = [sec |-> 1767969045, ms |-> 0]
    /\ mem = [s \in {"blob", "data"} |-> <<>>]
    /\ data = "none"
    /\ pc = "idle"
    /\ result = Pending
    /\ calls = 0
    /\ first = NoFirst

\* no concurrent calls are under way
NoTasks == tasks = <<>> /\ heap = <<>>

\* createJpegExifSegment with two URLs is not being called
NoExif == pageUrl = <<>> /\ imageUrl = <<>> /\ saveDate = 0 /\ builtSegment = <<>>

\* no save is under way
NoSave ==
    /\ duplicateMode = "global"
    /\ imageHashes = <<>>
    /\ lastHashCleanup = 0
    /\ pendingSave = <<>>
    /\ now = 0
    /\ ops = <<>>
    /\ uploads = <<>>
    /\ started = 0

\* no function of storage-schema.js is being called
NoSchema == destinations = <<>> /\ schemaCalls = <<>> /\ schemaStarted = 0

\* chrome.storage.local without the key tokens; "" stands for undefined
NoStoredTokens ==
    [stored |-> FALSE, accessToken |-> "", refreshToken |-> "", refreshCount |-> 0]

\* no token refresh is under way
NoRefresh == tokens = NoStoredTokens /\ refreshes = <<>> /\ notifications = 0

\* createWebpXmpChunk is not being called on its own
NoXmp == xmpArgument = <<>> /\ xmpReturned = <<>>

\* addJpegMetadata is not being called on what it returned
NoJpeg == [bytes |-> <<>>, calls |-> 0, again |-> TRUE]

\* createJpegExifSegment is not being called on its own
NoSegment == segmentUrl = <<>> /\ segmentDate = 0 /\ segmentBuilt = <<>> /\ jpeg = NoJpeg

\* chrome.storage.sync without the key selectedFolder
NoFolder == [stored |-> FALSE, id |-> "", name |-> ""]

\* migrateFromLegacy is not being called; call is 1 in the first call and 2
\* in every further one
NoMigration ==
    [pc |-> "idle",
     read |-> [selectedFolder |-> NoFolder, storageVersion |-> 0, destinations |-> <<>>],
     migrated |-> FALSE, call |-> 0]

\* the context menu is not being built and nothing is migrated
NoMenu ==
    /\ menu = <<>>
    /\ rebuilds = <<>>
    /\ selectedFolder = NoFolder
    /\ storageVersion = 0
    /\ migration = NoMigration

OnlySingleCall == NoTasks /\ NoExif /\ NoSave /\ NoSchema /\ NoRefresh /\ NoXmp /\ NoSegment /\ NoMenu
OnlyTasks == NoExif /\ NoSave /\ NoSchema /\ NoRefresh /\ NoXmp /\ NoSegment /\ NoMenu
OnlyExif == NoTasks /\ NoSave /\ NoSchema /\ NoRefresh /\ NoXmp /\ NoSegment /\ NoMenu
OnlySave == NoSingleCall /\ tz = 0 /\ NoTasks /\ NoExif /\ NoSchema /\ NoRefresh /\ NoXmp /\ NoSegment /\ NoMenu
OnlySchema == NoSingleCall /\ tz = 0 /\ NoTasks /\ NoExif /\ NoSave /\ NoRefresh /\ NoXmp /\ NoSegment /\ NoMenu
OnlyTokens == NoSingleCall /\ tz = 0 /\ NoTasks /\ NoExif /\ NoSave /\ NoSchema /\ NoXmp /\ NoSegment /\ NoMenu
OnlyXmp == NoSingleCall /\ tz = 0 /\ NoTasks /\ NoExif /\ NoSave /\ NoSchema /\ NoRefresh /\ NoSegment /\ NoMenu
OnlySegment == NoTasks /\ NoExif /\ NoSave /\ NoSchema /\ NoRefresh /\ NoXmp /\ NoMenu
\* the schema functions are at rest, the destinations are those of the menu
OnlyMenu ==
    /\ NoSingleCall /\ tz = 0 /\ NoTasks /\ NoExif /\ NoSave /\ NoRefresh /\ NoXmp /\ NoSegment
    /\ schemaCalls = <<>> /\ schemaStarted = 0
Init ==
    /\ input \in Buffers
    /\ \E t \in MediaTypes : blob = [store |-> "blob", type |-> t]
    /\ url \in Urls
    /\ datetime \in Datetimes
    /\ tz \in Zones
    /\ mem = [s \in {"blob", "data"} |-> IF s = "blob" THEN input ELSE <<>>]
    /\ data = "none"
    /\ pc = "start"
    /\ result = Pending
    /\ calls = 0
    /\ first = NoFirst
    /\ OnlySingleCall

\* the call settles: count it, and remember the first result
Completed(res) ==
    /\ result' = res
    /\ calls' = calls + 1
    /\ first' = IF calls = 0 THEN [result |-> res, tz |-> tz] ELSE first
    /\ pc' = "done"

\* addImageMetadata up to its first suspension: the default case returns the
\* blob, every other case calls an injector, which awaits blob.arrayBuffer()
Dispatch ==
    /\ pc = "start"
    /\ IF Injector(blob.type) = "none"
       THEN /\ Completed(FulfilledWithBlob(mem, blob))
            /\ UNCHANGED <<mem, data>>
       ELSE /\ mem' = [mem EXCEPT ![ArrayBufferStore(blob)] = mem[blob.store]]
            /\ data' = ArrayBufferStore(blob)
            /\ pc' = "await"
            /\ UNCHANGED <<result, calls, first>>
    /\ UNCHANGED <<input, blob, url, datetime, tz>>
    /\ UNCHANGED exceptMetadata

\* the injector from the resumption to its return or throw, and the
\* dispatcher's return or catch
Inject ==
    /\ pc = "await"
    /\ \E outcome \in {InjectorOutcome(blob.type, mem[data], url, datetime, tz)} :
       \E after \in {[mem EXCEPT ![data] = InjectorDataAfter(blob.type, mem[data])]} :
          /\ mem' = after
          /\ Completed(Settle(outcome, after, blob))
    /\ UNCHANGED <<input, blob, url, datetime, tz, data>>
    /\ UNCHANGED exceptMetadata

\* the caller invokes addImageMetadata again with the same arguments
Reinvoke ==
    /\ pc = "done"
    /\ calls < MaxCalls
    /\ pc' = "start"
    /\ result' = Pending
    /\ data' = "none"
    /\ mem' = [mem EXCEPT !["data"] = <<>>]
    /\ UNCHANGED <<input, blob, url, datetime, tz, calls, first>>
    /\ UNCHANGED exceptMetadata

\* the system's time zone is changed between two calls
TimezoneChange ==
    /\ pc = "done"
    /\ calls < MaxCalls
    /\ \E z \in Zones \ {tz} : tz' = z
    /\ UNCHANGED <<input, blob, url, datetime, mem, data, pc, result, calls, first>>
    /\ UNCHANGED exceptMetadata

Next == Dispatch \/ Inject \/ Reinvoke \/ TimezoneChange

Spec == Init /\ [][Next]_vars


-----------------------------------------------------------------------------
(* Several calls of addImageMetadata in flight at once.  A call runs from  *)
(* its start to its `await blob.arrayBuffer()` without interruption, and   *)
(* from the resumption to its return; other calls run in between.          *)

TaskIds == 1..MaxTasks

\* the arguments the concurrent calls are made with: the Blob (its bytes and
\* its type), url and datetime
TaskBlobs ==
    {[bytes |-> JpegApp1, type |-> "image/jpeg"],
     [bytes |-> JpegStub, type |-> "image/jpeg"],
     [bytes |-> PngMinimal, type |-> "image/png"],
     [bytes |-> WebpVp8x, type |-> "image/webp"],
     [bytes |-> WebpVp8l, type |-> "image/webp"],
     [bytes |-> WebpVp8x, type |-> "image/gif"]}
TaskUrls == {<<>>, <<38, 233>>}
TaskArguments ==
    {[blob |-> b, url |-> u, datetime |-> [sec |-> 1767969045, ms |-> 0]] :
        b \in TaskBlobs, u \in TaskUrls}

\* variant: every call's blob.arrayBuffer() resolves with the same ArrayBuffer
TaskStoreShared(i) == 1

\* the ArrayBuffer blob.arrayBuffer() resolves with in call i: a new one
TaskStore(i) == i

\* the call with these arguments has not started
TaskStart(args) == [args |-> args, pc |-> "start", result |-> Pending]

TaskInit ==
    /\ tasks \in [TaskIds -> {TaskStart(a) : a \in TaskArguments}]
    /\ heap = [s \in TaskIds |-> <<>>]
    /\ tz \in Zones
    /\ NoSingleCall /\ OnlyTasks

\* call i from its start to its first suspension
TaskDispatch(i) ==
    /\ tasks[i].pc = "start"
    /\ IF Injector(tasks[i].args.blob.type) = "none"
       THEN /\ tasks' = [tasks EXCEPT ![i].pc = "done",
                                      ![i].result =
                                          FulfilledWithBlob([blob |-> tasks[i].args.blob.bytes],
                                                            [store |-> "blob",
                                                             type |-> tasks[i].args.blob.type])]
            /\ UNCHANGED heap
       ELSE /\ heap' = [heap EXCEPT ![TaskStore(i)] = tasks[i].args.blob.bytes]
            /\ tasks' = [tasks EXCEPT ![i].pc = "await"]
    /\ UNCHANGED exceptTasks

\* call i from the resumption to its return
TaskInject(i) ==
    /\ tasks[i].pc = "await"
    /\ \E outcome \in {InjectorOutcome(tasks[i].args.blob.type, heap[TaskStore(i)],
                                       tasks[i].args.url, tasks[i].args.datetime, tz)} :
          /\ heap' = [heap EXCEPT ![TaskStore(i)] =
                         InjectorDataAfter(tasks[i].args.blob.type, heap[TaskStore(i)])]
          /\ tasks' = [tasks EXCEPT ![i].pc = "done",
                                    ![i].result =
                                        Settle(outcome, [blob |-> tasks[i].args.blob.bytes],
                                               [store |-> "blob",
                                                type |-> tasks[i].args.blob.type])]
    /\ UNCHANGED exceptTasks

TaskNext == \E i \in TaskIds : TaskDispatch(i) \/ TaskInject(i)

TaskSpec == TaskInit /\ [][TaskNext]_vars

-----------------------------------------------------------------------------
(* createJpegExifSegment with the page URL and the image URL.  background.js *)
(* calls addImageMetadata(blob, pageUrl, imageUrl, saveDate) of              *)
(* lib/image-metadata.js; the description is the one the changelog of 2.1.0  *)
(* gives, the TIFF structure is built by buildTiffStructure.                 *)

\* ' | Image: '
StrImageSeparator == <<32, 124, 32, 73, 109, 97, 103, 101, 58, 32>>

\* `Source: ${pageUrl} | Image: ${imageUrl}`
DescriptionOf(page, image) == StrSourcePrefix \o page \o StrImageSeparator \o image

\* createJpegExifSegment(pageUrl, imageUrl, datetime)
CreateJpegExifSegmentOf(page, image, dt, zone) ==
    ExifSegmentOf(BuildTiffStructure(DescriptionOf(page, image), FormatExifDatetime(dt, zone)))

\* the URLs the caller supplies
UrlParts == StringsUpTo(MaxPartLen)

ExifInit ==
    /\ pageUrl \in UrlParts
    /\ imageUrl \in UrlParts
    /\ saveDate \in Datetimes
    /\ builtSegment = <<>>
    /\ tz \in Zones
    /\ NoSingleCall /\ OnlyExif

CreateSegment ==
    /\ builtSegment = <<>>
    /\ builtSegment' = CreateJpegExifSegmentOf(pageUrl, imageUrl, saveDate, tz)
    /\ UNCHANGED <<pageUrl, imageUrl, saveDate>>
    /\ UNCHANGED exceptExif

ExifNext == CreateSegment

ExifSpec == ExifInit /\ [][ExifNext]_vars

-----------------------------------------------------------------------------
(* background.js: saveToDestination, retryPendingSave and the duplicate     *)
(* detection.  Time is counted in minutes.  The hash of an image stands for *)
(* its bytes: calculateImageHash is SHA-256, taken to be free of collisions. *)

HASH_RETENTION_DAYS == 90
\* 24 * 60 * 60 * 1000 ms
HASH_CLEANUP_INTERVAL == 24 * 60
\* HASH_RETENTION_DAYS * 24 * 60 * 60 * 1000 ms
HashRetention == HASH_RETENTION_DAYS * 24 * 60
\* 10 * 60 * 1000 ms
PendingSaveMaxAge == 10

\* the images of the pages, each with its own hash
ImageIds == 1..(MAX_STORED_HASHES + 1)
\* the destinations stored, and an id that belongs to none
DestinationIds == {"d1", "d2"}
DestinationType(d) == IF d = "d1" THEN "onedrive" ELSE "local"
NoDestination == "none"

OpIds == 1..MaxOps

\* imageHashes is an object: its keys in the order of their insertion
Keys(hashes) == {hashes[i].hash : i \in 1..Len(hashes)}
IndexOf(hashes, hash) == CHOOSE i \in 1..Len(hashes) : hashes[i].hash = hash
\* existingData.destinations || []
ExistingDestinations(hashes, hash) ==
    IF hash \in Keys(hashes) /\ hashes[IndexOf(hashes, hash)].hasDestinations
    THEN hashes[IndexOf(hashes, hash)].destinations
    ELSE <<>>
Includes(array, x) == \E i \in 1..Len(array) : array[i] = x

\* hashes[hash] = hashData
PutHash(hashes, hashData) ==
    IF hashData.hash \in Keys(hashes)
    THEN [hashes EXCEPT ![IndexOf(hashes, hashData.hash)] = hashData]
    ELSE Append(hashes, hashData)

\* variant: an entry without destinations blocks nothing in per-destination mode
CheckDuplicateListed(mode, hashes, hash, destinationId) ==
    IF mode = "disabled" THEN FALSE
    ELSE IF hash \notin Keys(hashes) THEN FALSE
    ELSE IF mode = "global" THEN TRUE
    ELSE IF mode = "per-destination"
         THEN Includes(hashes[IndexOf(hashes, hash)].destinations, destinationId)
    ELSE FALSE

\* checkDuplicate(hash, destinationId): isDuplicate
CheckDuplicate(mode, hashes, hash, destinationId) ==
    IF mode = "disabled" THEN FALSE
    ELSE IF hash \notin Keys(hashes) THEN FALSE
    ELSE IF mode = "global" THEN TRUE
    ELSE IF mode = "per-destination"
         THEN IF ~hashes[IndexOf(hashes, hash)].hasDestinations THEN TRUE
              ELSE Includes(hashes[IndexOf(hashes, hash)].destinations, destinationId)
    ELSE FALSE

\* variant: the entry names only the destination of this save
HashDataOverwriting(mode, hashes, hash, destinationId, t) ==
    IF mode = "per-destination"
    THEN [hash |-> hash, timestamp |-> t, hasDestinations |-> TRUE,
          destinations |-> <<destinationId>>]
    ELSE [hash |-> hash, timestamp |-> t, hasDestinations |-> FALSE,
          destinations |-> <<>>]

\* storeImageHash: hashData
HashDataOf(mode, hashes, hash, destinationId, t) ==
    IF mode = "per-destination"
    THEN [hash |-> hash, timestamp |-> t, hasDestinations |-> TRUE,
          destinations |->
              IF Includes(ExistingDestinations(hashes, hash), destinationId)
              THEN ExistingDestinations(hashes, hash)
              ELSE Append(ExistingDestinations(hashes, hash), destinationId)]
    ELSE [hash |-> hash, timestamp |-> t, hasDestinations |-> FALSE,
          destinations |-> <<>>]

\* cleanupOldHashes: the entries not older than the cutoff
NotExpired(hashes, t) ==
    SelectSeq(hashes, LAMBDA e : ~(e.timestamp < t - HashRetention))
\* Object.entries(hashes).sort((a, b) => a[1].timestamp - b[1].timestamp)
InsertByTimestamp(sorted, e) ==
    LET before == SelectSeq(sorted, LAMBDA x : x.timestamp <= e.timestamp)
        after == SelectSeq(sorted, LAMBDA x : x.timestamp > e.timestamp)
    IN  before \o <<e>> \o after
RECURSIVE SortedHashes(_, _)
SortedHashes(hashes, n) ==
    IF n = 0 THEN <<>> ELSE InsertByTimestamp(SortedHashes(hashes, n - 1), hashes[n])
\* variant: the newest entries are deleted
NewestKeys(hashes) ==
    IF Len(hashes) > MAX_STORED_HASHES
    THEN {SortedHashes(hashes, Len(hashes))[i].hash :
              i \in (MAX_STORED_HASHES + 1)..Len(hashes)}
    ELSE {}

\* the keys deleted because of MAX_STORED_HASHES
OldestKeys(hashes) ==
    IF Len(hashes) > MAX_STORED_HASHES
    THEN {SortedHashes(hashes, Len(hashes))[i].hash :
              i \in 1..(Len(hashes) - MAX_STORED_HASHES)}
    ELSE {}
WithoutOldest(hashes, oldest) == SelectSeq(hashes, LAMBDA e : e.hash \notin oldest)
\* cleanupOldHashes: what is written as imageHashes
CleanupOldHashes(hashes, t) ==
    WithoutOldest(NotExpired(hashes, t), OldestKeys(NotExpired(hashes, t)))

NoPendingSave == [present |-> FALSE, destinationId |-> NoDestination, image |-> 0, timestamp |-> 0]
PendingSaveOf(d, image, t) ==
    [present |-> TRUE, destinationId |-> d, image |-> image, timestamp |-> t]

\* a run that has not started
IdleOp ==
    [kind |-> "none", pc |-> "idle", destinationId |-> NoDestination, image |-> 0,
     hashes |-> <<>>, lastCleanup |-> 0, reason |-> "", pendingAge |-> 0,
     fetched |-> FALSE, uploaded |-> FALSE, stored |-> FALSE]
\* the run returns
Return(op, reason) == [op EXCEPT !.pc = "done", !.reason = reason]

\* Date.now() when the runs begin
NowAtStart == 2 * HashRetention

\* nothing has been saved yet
NothingStored == [hashes |-> <<>>, lastCleanup |-> 0, saved |-> {}]
\* what earlier runs in mode `mode` have left in chrome.storage.local: image 1,
\* saved to d1 a minute more than the retention time ago
StoredLongAgo(mode) ==
    [hashes |-> <<HashDataOf(mode, <<>>, 1, "d1", NowAtStart - HashRetention - 1)>>,
     lastCleanup |-> NowAtStart - HashRetention - 1,
     saved |-> {1}]
\* images 1 and 2, saved to d1 two minutes and one minute ago
StoredLately(mode) ==
    [hashes |-> <<HashDataOf(mode, <<>>, 1, "d1", NowAtStart - 2),
                  HashDataOf(mode, <<>>, 2, "d1", NowAtStart - 1)>>,
     lastCleanup |-> NowAtStart - 2,
     saved |-> {1, 2}]

\* the state the runs begin in, given what is stored
InitWith(stored) ==
    /\ imageHashes = stored.hashes
    /\ lastHashCleanup = stored.lastCleanup
    /\ pendingSave = NoPendingSave
    /\ now = NowAtStart
    /\ ops = [p \in OpIds |-> IdleOp]
    /\ uploads = [d \in DestinationIds |->
                     [i \in ImageIds |-> IF d = "d1" /\ i \in stored.saved THEN 1 ELSE 0]]
    /\ started = 0
    /\ OnlySave

\* a new installation
SaveInit ==
    /\ duplicateMode \in {"global", "per-destination", "disabled"}
    /\ InitWith(NothingStored)

\* an installation that may have saved images before
SeqInit ==
    /\ duplicateMode \in {"global", "per-destination", "disabled"}
    /\ \E stored \in {NothingStored, StoredLongAgo(duplicateMode), StoredLately(duplicateMode)} :
          InitWith(stored)

\* saveToDestination up to the fetch of the image: the destination is looked
\* up, the provider asked whether it is ready, the image fetched
SaveToDestination(p, d, image) ==
    /\ ops[p].pc \in {"idle", "done"}
    /\ started < MaxStarted
    /\ started' = started + 1
    /\ \E ready \in BOOLEAN, fetched \in BOOLEAN :
        LET op == [IdleOp EXCEPT !.kind = "save", !.destinationId = d, !.image = image]
        IN  IF d \notin DestinationIds
            THEN /\ ops' = [ops EXCEPT ![p] = Return(op, "not_found")]
                 /\ UNCHANGED pendingSave
            ELSE IF ~ready
            THEN /\ ops' = [ops EXCEPT ![p] = Return(op, "not_ready")]
                 /\ pendingSave' = IF DestinationType(d) = "onedrive"
                                   THEN PendingSaveOf(d, image, now)
                                   ELSE pendingSave
            ELSE IF ~fetched
            THEN /\ ops' = [ops EXCEPT ![p] = Return(op, "error")]
                 /\ UNCHANGED pendingSave
            ELSE /\ ops' = [ops EXCEPT ![p] = [op EXCEPT !.pc = "check", !.fetched = TRUE]]
                 /\ UNCHANGED pendingSave
    /\ UNCHANGED <<duplicateMode, imageHashes, lastHashCleanup, now, uploads>>
    /\ UNCHANGED exceptSave

\* variant: a pending save never counts as too old
PendingNeverExpired(pending, t) == FALSE

\* Date.now() - pending.timestamp > 10 * 60 * 1000
PendingExpired(pending, t) == t - pending.timestamp > PendingSaveMaxAge

\* retryPendingSave up to the fetch of the image; `found` is whether the
\* destination of the pending save, or another OneDrive destination, is stored
RetryPendingSave(p) ==
    /\ ops[p].pc \in {"idle", "done"}
    /\ started < MaxStarted
    /\ started' = started + 1
    /\ \E found \in BOOLEAN, ready \in BOOLEAN, fetched \in BOOLEAN :
        LET op == [IdleOp EXCEPT !.kind = "retry",
                                 !.destinationId = pendingSave.destinationId,
                                 !.image = pendingSave.image,
                                 !.pendingAge = now - pendingSave.timestamp]
        IN  IF ~pendingSave.present
            THEN ops' = [ops EXCEPT ![p] = Return([op EXCEPT !.pendingAge = 0], "no_pending")]
            ELSE IF PendingExpired(pendingSave, now)
            THEN ops' = [ops EXCEPT ![p] = [op EXCEPT !.pc = "expire"]]
            ELSE IF ~found
            THEN ops' = [ops EXCEPT ![p] = [op EXCEPT !.pc = "noDestination"]]
            ELSE IF ~ready
            THEN ops' = [ops EXCEPT ![p] = Return(op, "not_ready")]
            ELSE IF ~fetched
            THEN ops' = [ops EXCEPT ![p] = Return(op, "error")]
            ELSE ops' = [ops EXCEPT ![p] = [op EXCEPT !.pc = "check", !.fetched = TRUE]]
    /\ UNCHANGED <<duplicateMode, imageHashes, lastHashCleanup, pendingSave, now, uploads>>
    /\ UNCHANGED exceptSave

\* retryPendingSave: await chrome.storage.local.remove('pendingSave') of the
\* pending save that is too old
RemoveExpired(p) ==
    /\ ops[p].pc = "expire"
    /\ pendingSave' = NoPendingSave
    /\ ops' = [ops EXCEPT ![p] = Return(ops[p], "expired")]
    /\ UNCHANGED <<duplicateMode, imageHashes, lastHashCleanup, now, uploads, started>>
    /\ UNCHANGED exceptSave

\* retryPendingSave: await chrome.storage.local.remove('pendingSave') when no
\* destination is left
RemoveNoDestination(p) ==
    /\ ops[p].pc = "noDestination"
    /\ pendingSave' = NoPendingSave
    /\ ops' = [ops EXCEPT ![p] = Return(ops[p], "no_destination")]
    /\ UNCHANGED <<duplicateMode, imageHashes, lastHashCleanup, now, uploads, started>>
    /\ UNCHANGED exceptSave

\* await checkDuplicate(imageHash, destinationId) and what follows it
DuplicateCheck(p) ==
    /\ ops[p].pc = "check"
    /\ IF CheckDuplicate(duplicateMode, imageHashes, ops[p].image, ops[p].destinationId)
       THEN /\ ops' = [ops EXCEPT ![p] = Return(ops[p], "duplicate")]
            /\ pendingSave' = IF ops[p].kind = "retry" THEN NoPendingSave ELSE pendingSave
       ELSE /\ ops' = [ops EXCEPT ![p].pc = "upload"]
            /\ UNCHANGED pendingSave
    /\ UNCHANGED <<duplicateMode, imageHashes, lastHashCleanup, now, uploads, started>>
    /\ UNCHANGED exceptSave

\* variant: the result of saveFile is not tested
SaveFileUnchecked(p) ==
    /\ ops[p].pc = "upload"
    /\ \E outcome \in {"success", "failure", "requiresReauth"} :
          /\ uploads' = IF outcome = "success"
                        THEN [uploads EXCEPT ![ops[p].destinationId][ops[p].image] = @ + 1]
                        ELSE uploads
          /\ ops' = [ops EXCEPT ![p].pc = "store", ![p].uploaded = TRUE]
    /\ UNCHANGED <<duplicateMode, imageHashes, lastHashCleanup, pendingSave, now, started>>
    /\ UNCHANGED exceptSave

\* await provider.saveFile(blobWithMetadata, filename), and the catch
SaveFile(p) ==
    /\ ops[p].pc = "upload"
    /\ \E outcome \in {"success", "failure", "requiresReauth"} :
        IF outcome = "success"
        THEN /\ uploads' = [uploads EXCEPT ![ops[p].destinationId][ops[p].image] = @ + 1]
             /\ ops' = [ops EXCEPT ![p].pc = "store", ![p].uploaded = TRUE]
             /\ UNCHANGED pendingSave
        ELSE /\ ops' = [ops EXCEPT ![p] = Return(ops[p], "error")]
             /\ pendingSave' =
                    IF /\ ops[p].kind = "save"
                       /\ outcome = "requiresReauth"
                       /\ DestinationType(ops[p].destinationId) = "onedrive"
                    THEN PendingSaveOf(ops[p].destinationId, ops[p].image, now)
                    ELSE pendingSave
             /\ UNCHANGED uploads
    /\ UNCHANGED <<duplicateMode, imageHashes, lastHashCleanup, now, started>>
    /\ UNCHANGED exceptSave

\* variant: retryPendingSave without its last remove('pendingSave')
SavedKeepingPending(p, op) ==
    /\ ops' = [ops EXCEPT ![p] = Return(op, "saved")]
    /\ UNCHANGED pendingSave

\* the end of a run whose image was saved: retryPendingSave removes pendingSave
Saved(p, op) ==
    /\ ops' = [ops EXCEPT ![p] = Return(op, "saved")]
    /\ pendingSave' = IF op.kind = "retry" THEN NoPendingSave ELSE pendingSave

\* storeImageHash: getDuplicateMode() and chrome.storage.local.get('imageHashes')
StoreImageHashGet(p) ==
    /\ ops[p].pc = "store"
    /\ IF duplicateMode = "disabled"
       THEN Saved(p, ops[p])
       ELSE /\ ops' = [ops EXCEPT ![p].pc = "storeSet", ![p].hashes = imageHashes]
            /\ UNCHANGED pendingSave
    /\ UNCHANGED <<duplicateMode, imageHashes, lastHashCleanup, now, uploads, started>>
    /\ UNCHANGED exceptSave

\* storeImageHash: chrome.storage.local.set({ imageHashes: hashes })
StoreImageHashSet(p) ==
    /\ ops[p].pc = "storeSet"
    /\ imageHashes' = PutHash(ops[p].hashes,
                              HashDataOf(duplicateMode, ops[p].hashes, ops[p].image,
                                         ops[p].destinationId, now))
    /\ ops' = [ops EXCEPT ![p].pc = "cleanup", ![p].stored = TRUE, ![p].hashes = <<>>]
    /\ UNCHANGED <<duplicateMode, lastHashCleanup, pendingSave, now, uploads, started>>
    /\ UNCHANGED exceptSave

\* cleanupOldHashes: chrome.storage.local.get(['imageHashes', 'lastHashCleanup'])
CleanupGet(p) ==
    /\ ops[p].pc = "cleanup"
    /\ ops' = [ops EXCEPT ![p].pc = "cleanupSet", ![p].hashes = imageHashes,
                          ![p].lastCleanup = lastHashCleanup]
    /\ UNCHANGED <<duplicateMode, imageHashes, lastHashCleanup, pendingSave, now,
                   uploads, started>>
    /\ UNCHANGED exceptSave

\* cleanupOldHashes from the interval test to its end, and the end of the run
CleanupSet(p) ==
    /\ ops[p].pc = "cleanupSet"
    /\ IF now - ops[p].lastCleanup < HASH_CLEANUP_INTERVAL
       THEN UNCHANGED <<imageHashes, lastHashCleanup>>
       ELSE /\ imageHashes' = CleanupOldHashes(ops[p].hashes, now)
            /\ lastHashCleanup' = now
    /\ Saved(p, [ops[p] EXCEPT !.hashes = <<>>, !.lastCleanup = 0])
    /\ UNCHANGED <<duplicateMode, now, uploads, started>>
    /\ UNCHANGED exceptSave

\* time passes
ClockSteps == {PendingSaveMaxAge, HASH_CLEANUP_INTERVAL, HashRetention + 1}
Tick(step) ==
    /\ started < MaxStarted
    /\ started' = started + 1
    /\ now' = now + step
    /\ UNCHANGED <<duplicateMode, imageHashes, lastHashCleanup, pendingSave, ops, uploads>>
    /\ UNCHANGED exceptSave

\* time passes between the runs
TimePasses ==
    /\ \A p \in OpIds : ops[p].pc \in {"idle", "done"}
    /\ \E step \in ClockSteps : Tick(step)

\* run p after its start
OpContinue(p) ==
    \/ RemoveExpired(p)
    \/ RemoveNoDestination(p)
    \/ DuplicateCheck(p)
    \/ SaveFile(p)
    \/ StoreImageHashGet(p)
    \/ StoreImageHashSet(p)
    \/ CleanupGet(p)
    \/ CleanupSet(p)

\* runs overlap at their awaits; each saves the same image, to any destination
SaveNext ==
    \/ \E p \in OpIds :
          /\ ops[p].pc = "idle"
          /\ \/ \E d \in DestinationIds : SaveToDestination(p, d, 1)
             \/ RetryPendingSave(p)
    \/ \E p \in OpIds : OpContinue(p)
    \/ TimePasses
SaveSpec == SaveInit /\ [][SaveNext]_vars

\* one run at a time, of any image to any destination
SeqNext ==
    \/ \E d \in DestinationIds \cup {NoDestination}, image \in ImageIds :
          SaveToDestination(1, d, image)
    \/ RetryPendingSave(1)
    \/ OpContinue(1)
    \/ TimePasses
SeqSpec == SeqInit /\ [][SeqNext]_vars

\* options.js, handleDuplicateModeChange: the user chooses another mode, at
\* any time
HandleDuplicateModeChange(mode) ==
    /\ started < MaxStarted
    /\ started' = started + 1
    /\ mode # duplicateMode
    /\ duplicateMode' = mode
    /\ UNCHANGED <<imageHashes, lastHashCleanup, pendingSave, now, ops, uploads>>
    /\ UNCHANGED exceptSave

\* an installation in mode global, which may have saved images before
ModeInit ==
    /\ duplicateMode = "global"
    /\ \E stored \in {NothingStored, StoredLately("global")} : InitWith(stored)

\* one save at a time, of any image to any destination, and changes of the mode
ModeNext ==
    \/ \E d \in DestinationIds, image \in ImageIds : SaveToDestination(1, d, image)
    \/ DuplicateCheck(1)
    \/ SaveFile(1)
    \/ StoreImageHashGet(1)
    \/ StoreImageHashSet(1)
    \/ CleanupGet(1)
    \/ CleanupSet(1)
    \/ TimePasses
    \/ \E mode \in {"global", "per-destination", "disabled"} : HandleDuplicateModeChange(mode)
ModeSpec == ModeInit /\ [][ModeNext]_vars

-----------------------------------------------------------------------------
(* lib/storage-schema.js: the destinations array.  Every function reads the *)
(* array with getDestinations, changes its copy and writes it back with     *)
(* saveDestinations; calls overlap between the read and the write.          *)

SchemaCallIds == 1..MaxSchemaCalls
\* the ids destinations are given
DestinationPool == 1..(MAX_DESTINATIONS + 1)

Destination(id, order) == [id |-> id, order |-> order]
IdsOf(array) == {array[i].id : i \in 1..Len(array)}
\* destinations.findIndex(d => d.id === id), counted from 1; 0 when there is none
FindIndex(array, id) ==
    IF id \in IdsOf(array)
    THEN CHOOSE i \in 1..Len(array) :
             array[i].id = id /\ \A j \in 1..(i - 1) : array[j].id # id
    ELSE 0

\* addDestination after the test of the length: order, push
AddedTo(array, id) == Append(array, Destination(id, Len(array)))
\* updateDestination: { ...destinations[index], ...updates }
UpdatedIn(array, id, order) == [array EXCEPT ![FindIndex(array, id)].order = order]
\* removeDestination: filter, then order = index
RemovedFrom(array, id) ==
    LET filtered == SelectSeq(array, LAMBDA d : d.id # id)
    IN  [i \in 1..Len(filtered) |-> Destination(filtered[i].id, i - 1)]
\* reorderDestinations: map to the destination found, order = index (the same
\* object when an id comes twice, so its last index), then filter(Boolean)
LastIndexOf(orderedIds, id) ==
    CHOOSE i \in 1..Len(orderedIds) :
        orderedIds[i] = id /\ \A j \in (i + 1)..Len(orderedIds) : orderedIds[j] # id
Reordered(array, orderedIds) ==
    LET found == SelectSeq(orderedIds, LAMBDA id : id \in IdsOf(array))
    IN  [i \in 1..Len(found) |-> Destination(found[i], LastIndexOf(orderedIds, found[i]) - 1)]

\* the array a call hands to saveDestinations; `thrown` when it throws before
Outcome(call) ==
    CASE call.name = "addDestination" ->
             IF Len(call.read) >= MAX_DESTINATIONS
             THEN [thrown |-> TRUE, array |-> <<>>]
             ELSE [thrown |-> FALSE, array |-> AddedTo(call.read, call.id)]
      [] call.name = "updateDestination" ->
             IF FindIndex(call.read, call.id) = 0
             THEN [thrown |-> TRUE, array |-> <<>>]
             ELSE [thrown |-> FALSE, array |-> UpdatedIn(call.read, call.id, call.order)]
      [] call.name = "removeDestination" ->
             [thrown |-> FALSE, array |-> RemovedFrom(call.read, call.id)]
      [] call.name = "reorderDestinations" ->
             [thrown |-> FALSE, array |-> Reordered(call.read, call.orderedIds)]

\* variant: saveDestinations without its test of the length
SaveDestinationsUnchecked(array) == FALSE

\* saveDestinations throws
SaveDestinationsThrows(array) == Len(array) > MAX_DESTINATIONS

NoCall ==
    [name |-> "none", pc |-> "idle", id |-> 0, order |-> 0, orderedIds |-> <<>>,
     read |-> <<>>, result |-> ""]
\* the call returns or throws
Returned(call, how) == [NoCall EXCEPT !.name = call.name, !.pc = "returned",
                                      !.result = how]

\* the arrays of ids reorderDestinations is called with: the ids of the cards
\* of the page. These are the ids stored, in any order; the ids stored with
\* the first id repeated; and, on a page that loaded the destinations before
\* the last one was added, the ids stored without the last
RECURSIVE Orderings(_)
Orderings(ids) ==
    IF ids = {} THEN {<<>>}
    ELSE UNION {{<<id>> \o rest : rest \in Orderings(ids \ {id})} : id \in ids}
Padded(array, n) == [i \in 1..n |-> IF i <= Len(array) THEN array[i].id ELSE array[1].id]
OrderedIds(array) ==
    Orderings(IdsOf(array))
    \cup (IF array = <<>> THEN {} ELSE {Padded(array, MAX_DESTINATIONS + 1)})
    \cup (IF Len(array) < 2 THEN {} ELSE {[i \in 1..(Len(array) - 1) |-> array[i].id]})

SchemaInit ==
    /\ destinations = <<>>
    /\ schemaCalls = [c \in SchemaCallIds |-> NoCall]
    /\ schemaStarted = 0
    /\ OnlySchema

\* a function is called: await getDestinations()
GetDestinations(c, name, id, order, orderedIds) ==
    /\ schemaCalls[c].pc \in {"idle", "returned"}
    /\ schemaStarted < MaxStarted
    /\ schemaStarted' = schemaStarted + 1
    /\ schemaCalls' = [schemaCalls EXCEPT ![c] =
           [name |-> name, pc |-> "read", id |-> id, order |-> order,
            orderedIds |-> orderedIds, read |-> destinations, result |-> ""]]
    /\ UNCHANGED destinations
    /\ UNCHANGED exceptSchema

\* the function from the resumption to its end: it throws, or saveDestinations
\* throws, or the array is written
SaveDestinations(c) ==
    /\ schemaCalls[c].pc = "read"
    /\ LET out == Outcome(schemaCalls[c])
       IN  IF out.thrown \/ SaveDestinationsThrows(out.array)
           THEN /\ schemaCalls' = [schemaCalls EXCEPT ![c] = Returned(schemaCalls[c], "error")]
                /\ UNCHANGED destinations
           ELSE /\ schemaCalls' = [schemaCalls EXCEPT ![c] = Returned(schemaCalls[c], "ok")]
                /\ destinations' = out.array
    /\ UNCHANGED schemaStarted
    /\ UNCHANGED exceptSchema

SchemaNext ==
    \E c \in SchemaCallIds :
        \/ \E id \in DestinationPool : GetDestinations(c, "addDestination", id, 0, <<>>)
        \/ \E id \in DestinationPool : GetDestinations(c, "updateDestination", id, 0, <<>>)
        \/ \E id \in DestinationPool : GetDestinations(c, "removeDestination", id, 0, <<>>)
        \/ \E orderedIds \in OrderedIds(destinations) :
              GetDestinations(c, "reorderDestinations", 0, 0, orderedIds)
        \/ SaveDestinations(c)

SchemaSpec == SchemaInit /\ [][SchemaNext]_vars

-----------------------------------------------------------------------------
(* lib/onedrive-api.js: the OAuth tokens.  refreshAccessToken reads the     *)
(* stored tokens, asks the token endpoint and either stores the answer with *)
(* storeTokens or fails; proactiveTokenRefresh of background.js calls it    *)
(* and catches what it throws.  The runs overlap at their awaits, and the   *)
(* options page may disconnect in between.  A string that is undefined or   *)
(* empty is "" (both are falsy); the times kept with the tokens (expiresAt, *)
(* lastRefresh, originalAuth) are left out.                                 *)

RefreshIds == 1..MaxRefreshes

\* the tokens object storeTokens writes
StoredTokens(access, refresh, count) ==
    [stored |-> TRUE, accessToken |-> access, refreshToken |-> refresh,
     refreshCount |-> count]

\* what the token endpoint answers: fetch rejects, or a response that is not
\* ok with its error (`unknown` when its body is no JSON), or the new tokens
FetchRejected == [status |-> "rejected", error |-> "", access_token |-> "", refresh_token |-> ""]
ErrorResponse(error) ==
    [status |-> "error", error |-> error, access_token |-> "", refresh_token |-> ""]
OkResponse(access, refresh) ==
    [status |-> "ok", error |-> "", access_token |-> access, refresh_token |-> refresh]
Responses ==
    {FetchRejected}
    \cup {ErrorResponse(e) :
            e \in {"invalid_grant", "invalid_request", "invalid_client", "unknown"}}
    \cup {OkResponse("at2", refresh) : refresh \in {"", "rt1", "rt2"}}

\* variant: only invalid_grant asks for a new sign-in
RequiresReauthGrantOnly(error) == error = "invalid_grant"

\* error.error === 'invalid_grant' || error.error === 'invalid_request'
RequiresReauth(error) == error = "invalid_grant" \/ error = "invalid_request"

\* variant: the refresh token read before the request is not put in
NewTokensUnfilled(response, read) == response

\* refreshAccessToken: newTokens, with the refresh token read at the start of
\* the call put in when the response has none
NewTokensOf(response, read) ==
    IF response.refresh_token = ""
    THEN [response EXCEPT !.refresh_token = read.refreshToken]
    ELSE response

\* storeTokens: tokenData
TokenData(newTokens, existing, isRefresh) ==
    StoredTokens(newTokens.access_token,
                 IF newTokens.refresh_token # "" THEN newTokens.refresh_token
                 ELSE existing.refreshToken,
                 existing.refreshCount + (IF isRefresh THEN 1 ELSE 0))

\* what refreshAccessToken threw
NoError == [thrown |-> FALSE, message |-> "", requiresReauth |-> FALSE]
PlainError(message) == [thrown |-> TRUE, message |-> message, requiresReauth |-> FALSE]
AuthError ==
    [thrown |-> TRUE, message |-> "Session expired. Please reconnect to OneDrive.",
     requiresReauth |-> TRUE]

\* a run of proactiveTokenRefresh: its position, the tokens refreshAccessToken
\* read, the response, the tokens storeTokens read, the error caught
IdleRefresh ==
    [pc |-> "idle", tokens |-> NoStoredTokens, response |-> FetchRejected,
     existing |-> NoStoredTokens, error |-> NoError]

TokenInit ==
    /\ tokens \in {NoStoredTokens, StoredTokens("at1", "", 0), StoredTokens("at1", "rt1", 0)}
    /\ refreshes = [r \in RefreshIds |-> IdleRefresh]
    /\ notifications = 0
    /\ OnlyTokens

\* proactiveTokenRefresh up to the call of refreshAccessToken
ProactiveTokenRefresh(r) ==
    /\ refreshes[r].pc = "idle"
    /\ refreshes' = [refreshes EXCEPT ![r].pc =
                         IF tokens.refreshToken = "" THEN "done" ELSE "refresh"]
    /\ UNCHANGED <<tokens, notifications, exceptTokens>>

\* refreshAccessToken up to fetch
RefreshAccessToken(r) ==
    /\ refreshes[r].pc = "refresh"
    /\ refreshes' = [refreshes EXCEPT ![r] =
           IF tokens.refreshToken = ""
           THEN [@ EXCEPT !.pc = "done", !.tokens = tokens,
                          !.error = PlainError("No refresh token available")]
           ELSE [@ EXCEPT !.pc = "fetch", !.tokens = tokens]]
    /\ UNCHANGED <<tokens, notifications, exceptTokens>>

\* the token endpoint answers, or fetch rejects
FetchToken(r, response) ==
    /\ refreshes[r].pc = "fetch"
    /\ refreshes' = [refreshes EXCEPT ![r] =
           CASE response.status = "rejected" ->
                    [@ EXCEPT !.pc = "done", !.error = PlainError("Failed to fetch")]
             [] response.status = "error" ->
                    [@ EXCEPT !.pc = "failed", !.response = response]
             [] response.status = "ok" ->
                    [@ EXCEPT !.pc = "store", !.response = response]]
    /\ UNCHANGED <<tokens, notifications, exceptTokens>>

\* refreshAccessToken when the response is not ok, and the catch of
\* proactiveTokenRefresh
RefreshFailed(r) ==
    /\ refreshes[r].pc = "failed"
    /\ IF RequiresReauth(refreshes[r].response.error)
       THEN /\ tokens' = NoStoredTokens
            /\ refreshes' = [refreshes EXCEPT ![r].pc = "done", ![r].error = AuthError]
            /\ notifications' = notifications + 1
       ELSE /\ refreshes' = [refreshes EXCEPT ![r].pc = "done",
                                 ![r].error = PlainError("Failed to refresh token")]
            /\ UNCHANGED <<tokens, notifications>>
    /\ UNCHANGED exceptTokens

\* storeTokens: existing = await getTokens()
StoreTokensGet(r) ==
    /\ refreshes[r].pc = "store"
    /\ refreshes' = [refreshes EXCEPT ![r].pc = "set", ![r].existing = tokens]
    /\ UNCHANGED <<tokens, notifications, exceptTokens>>

\* storeTokens: chrome.storage.local.set({ tokens: tokenData }), and the
\* return of refreshAccessToken
StoreTokensSet(r) ==
    /\ refreshes[r].pc = "set"
    /\ tokens' = TokenData(NewTokensOf(refreshes[r].response, refreshes[r].tokens),
                           refreshes[r].existing, TRUE)
    /\ refreshes' = [refreshes EXCEPT ![r].pc = "done"]
    /\ UNCHANGED <<notifications, exceptTokens>>

\* handleDisconnect of options.js: clearTokens
HandleDisconnect ==
    /\ tokens.stored
    /\ tokens' = NoStoredTokens
    /\ UNCHANGED <<refreshes, notifications, exceptTokens>>

TokenNext ==
    \/ \E r \in RefreshIds : ProactiveTokenRefresh(r)
    \/ \E r \in RefreshIds : RefreshAccessToken(r)
    \/ \E r \in RefreshIds, response \in Responses : FetchToken(r, response)
    \/ \E r \in RefreshIds : RefreshFailed(r)
    \/ \E r \in RefreshIds : StoreTokensGet(r)
    \/ \E r \in RefreshIds : StoreTokensSet(r)
    \/ HandleDisconnect

TokenSpec == TokenInit /\ [][TokenNext]_vars

-----------------------------------------------------------------------------
(* createWebpXmpChunk called with any string *)

\* the strings handed to createWebpXmpChunk: 'a' is one byte of UTF-8, U+00E9
\* is two
PacketAlphabet == {97, 233}
RECURSIVE PacketsUpTo(_)
PacketsUpTo(n) ==
    IF n = 0 THEN {<<>>}
    ELSE LET shorter == PacketsUpTo(n - 1)
         IN  shorter \cup {s \o <<c>> : s \in shorter, c \in PacketAlphabet}
XmpStrings == PacketsUpTo(MaxPacketLen)

XmpInit ==
    /\ xmpArgument \in XmpStrings
    /\ xmpReturned = <<>>
    /\ OnlyXmp

CreateChunk ==
    /\ xmpReturned = <<>>
    /\ xmpReturned' = CreateWebpXmpChunk(xmpArgument)
    /\ UNCHANGED <<xmpArgument, exceptXmp>>

XmpNext == CreateChunk

XmpSpec == XmpInit /\ [][XmpNext]_vars

-----------------------------------------------------------------------------
(* createJpegExifSegment called with urls of any length *)

\* a url of n characters 'a'
UrlOfLength(n) == [i \in 1..n |-> 97]
SegmentUrls == {UrlOfLength(n) : n \in (0..MaxShortUrl) \cup {MaxLongUrl - 1, MaxLongUrl}}

SegmentInit ==
    /\ segmentUrl \in SegmentUrls
    /\ segmentDate \in Datetimes
    /\ segmentBuilt = <<>>
    /\ jpeg = NoJpeg
    /\ tz \in Zones
    /\ NoSingleCall /\ OnlySegment

CreateSegmentOfUrl ==
    /\ segmentBuilt = <<>>
    /\ segmentBuilt' = CreateJpegExifSegment(segmentUrl, segmentDate, tz)
    /\ UNCHANGED <<segmentUrl, segmentDate, jpeg, exceptSegment>>

SegmentNext == CreateSegmentOfUrl

SegmentSpec == SegmentInit /\ [][SegmentNext]_vars
-----------------------------------------------------------------------------
(* background.js: the context menu, and lib/storage-schema.js: the         *)
(* migration of the storage of version 1.  rebuildContextMenu removes all  *)
(* items, reads the destinations in the callback and creates the items;    *)
(* every write of destinations starts a run through storage.onChanged.     *)

STORAGE_VERSION == 2
CONTEXT_MENU_PARENT_ID == <<"saveme-", "parent">>
CONTEXT_MENU_SETUP_ID == <<"saveme-", "setup">>

\* the ids generateId gives, the folders of OneDrive
GeneratedIds == {"dest_1", "dest_2"}
Folders == {[stored |-> TRUE, id |-> "folder_1", name |-> "Pictures"],
            [stored |-> TRUE, id |-> "folder_2", name |-> "Camera"]}

\* a destination as the options page stores it
StoredDestination(id, order) ==
    [id |-> id, name |-> id, type |-> "local", order |-> order,
     folderId |-> "", folderName |-> ""]
\* the arrays the options page stores: the ids in any sequence, the values
\* of order in any sequence
RECURSIVE SequencesOf(_)
SequencesOf(set) ==
    IF set = {} THEN {<<>>}
    ELSE UNION {{<<x>> \o rest : rest \in SequencesOf(set \ {x})} : x \in set}
StoredArrays ==
    UNION {{[i \in 1..Len(ids) |-> StoredDestination(ids[i], orders[i])] :
               orders \in SequencesOf(0..(Len(ids) - 1))} :
           ids \in UNION {SequencesOf(chosen) : chosen \in SUBSET GeneratedIds}}

\* variant: getDestinationsSorted without the sort
GetDestinationsUnsorted(array) == array

\* getDestinationsSorted: [...destinations].sort((a, b) => a.order - b.order),
\* a stable sort
RECURSIVE GetDestinationsSorted(_)
GetDestinationsSorted(array) ==
    IF array = <<>> THEN <<>>
    ELSE LET first1 == array[1]
             rest == GetDestinationsSorted(Tail(array))
             before == SelectSeq(rest, LAMBDA d : d.order < first1.order)
             after == SelectSeq(rest, LAMBDA d : d.order >= first1.order)
         IN  before \o <<first1>> \o after

\* an item of the menu; parentId is <<>> for an item of the top level
MenuItem(id, parentId, title) == [id |-> id, parentId |-> parentId, title |-> title]
ItemIds(items) == {items[i].id : i \in 1..Len(items)}
\* chrome.contextMenus.create: an item whose id exists, or whose parent does
\* not, is not created
RECURSIVE CreateAll(_, _)
CreateAll(items, new) ==
    IF new = <<>> THEN items
    ELSE LET item == new[1]
             refused == \/ item.id \in ItemIds(items)
                        \/ item.parentId # <<>> /\ item.parentId \notin ItemIds(items)
         IN  CreateAll(IF refused THEN items ELSE Append(items, item), Tail(new))

\* the items rebuildContextMenu creates for the destinations it read
ItemsFor(sorted) ==
    IF Len(sorted) = 0
    THEN <<MenuItem(CONTEXT_MENU_SETUP_ID, <<>>, <<"SaveMe - Setup Required">>)>>
    ELSE IF Len(sorted) = 1
    THEN <<MenuItem(<<"saveme-", sorted[1].id>>, <<>>, <<"SaveMe to ", sorted[1].name>>)>>
    ELSE <<MenuItem(CONTEXT_MENU_PARENT_ID, <<>>, <<"SaveMe">>)>>
         \o [i \in 1..Len(sorted) |->
                MenuItem(<<"saveme-", sorted[i].id>>, CONTEXT_MENU_PARENT_ID,
                         <<sorted[i].name>>)]

\* the runs of rebuildContextMenu under way; a run is overlapped when another
\* was under way at some time since its start
NewRebuild(others) == [pc |-> "removeAll", read |-> <<>>, overlapped |-> others # <<>>]
\* rebuildContextMenu is called: chrome.contextMenus.removeAll is requested
Started(runs) ==
    Append([r \in 1..Len(runs) |-> [runs[r] EXCEPT !.overlapped = TRUE]],
           NewRebuild(runs))
\* the promise of a run is resolved
Resolved(runs, r) == [i \in 1..(Len(runs) - 1) |-> IF i < r THEN runs[i] ELSE runs[i + 1]]

\* variant: migrateFromLegacy without the test of the version
MigrationUnversioned(read, id) ==
    IF Len(read.destinations) > 0 \/ ~read.selectedFolder.stored
    THEN [migrated |-> FALSE, setsVersion |-> TRUE, setsDestinations |-> FALSE,
          destinations |-> <<>>]
    ELSE [migrated |-> TRUE, setsVersion |-> TRUE, setsDestinations |-> TRUE,
          destinations |->
              <<[id |-> id, name |-> "OneDrive", type |-> "onedrive", order |-> 0,
                 folderId |-> read.selectedFolder.id,
                 folderName |-> read.selectedFolder.name]>>]

\* the result of migrateFromLegacy for what it read: the keys it sets
MigrationOf(read, id) ==
    IF read.storageVersion >= STORAGE_VERSION
    THEN [migrated |-> FALSE, setsVersion |-> FALSE, setsDestinations |-> FALSE,
          destinations |-> <<>>]
    ELSE IF Len(read.destinations) > 0 \/ ~read.selectedFolder.stored
    THEN [migrated |-> FALSE, setsVersion |-> TRUE, setsDestinations |-> FALSE,
          destinations |-> <<>>]
    ELSE [migrated |-> TRUE, setsVersion |-> TRUE, setsDestinations |-> TRUE,
          destinations |->
              <<[id |-> id, name |-> "OneDrive", type |-> "onedrive", order |-> 0,
                 folderId |-> read.selectedFolder.id,
                 folderName |-> read.selectedFolder.name]>>]

MenuInit ==
    /\ destinations \in {array \in StoredArrays : Len(array) <= 1}
    /\ selectedFolder \in {NoFolder} \cup Folders
    /\ storageVersion \in 0..STORAGE_VERSION
    /\ menu = <<>>
    /\ rebuilds = <<>>
    /\ migration = NoMigration
    /\ OnlyMenu

\* onStartup, the message rebuildContextMenu, saveToDestination without its
\* destination: rebuildContextMenu is called
RebuildContextMenu ==
    /\ Len(rebuilds) < MaxRebuilds
    /\ rebuilds' = Started(rebuilds)
    /\ UNCHANGED <<menu, selectedFolder, storageVersion, migration>>
    /\ UNCHANGED exceptMenu

\* the items are removed and the callback runs to await getDestinationsSorted()
RemoveAll(r) ==
    /\ rebuilds[r].pc = "removeAll"
    /\ menu' = <<>>
    /\ rebuilds' = [rebuilds EXCEPT ![r].pc = "get"]
    /\ UNCHANGED <<selectedFolder, storageVersion, migration>>
    /\ UNCHANGED exceptMenu

\* chrome.storage.sync.get answers
ReadDestinations(r) ==
    /\ rebuilds[r].pc = "get"
    /\ rebuilds' = [rebuilds EXCEPT ![r].pc = "create",
                                    ![r].read = GetDestinationsSorted(destinations)]
    /\ UNCHANGED <<menu, selectedFolder, storageVersion, migration>>
    /\ UNCHANGED exceptMenu

\* the callback from the resumption to resolve(): the items are created
CreateItems(r) ==
    /\ rebuilds[r].pc = "create"
    /\ menu' = CreateAll(menu, ItemsFor(rebuilds[r].read))
    /\ rebuilds' = Resolved(rebuilds, r)
    /\ UNCHANGED <<selectedFolder, storageVersion, migration>>
    /\ UNCHANGED exceptMenu

\* the options page stores another array; storage.onChanged calls
\* rebuildContextMenu.  The page is opened after the migration.
StoreDestinations(array) ==
    /\ migration.pc = "idle"
    /\ Len(rebuilds) < MaxRebuilds
    /\ array # destinations
    /\ destinations' = array
    /\ rebuilds' = Started(rebuilds)
    /\ UNCHANGED <<menu, selectedFolder, storageVersion, migration>>
    /\ UNCHANGED <<schemaCalls, schemaStarted>>
    /\ UNCHANGED exceptSchemaAndMenu

\* onInstalled: migrateFromLegacy is called, chrome.storage.sync.get is requested
MigrateFromLegacy ==
    /\ migration.pc = "idle"
    /\ migration' = [NoMigration EXCEPT !.pc = "get",
                                         !.call = IF migration.call = 0 THEN 1 ELSE 2]
    /\ UNCHANGED <<menu, rebuilds, selectedFolder, storageVersion>>
    /\ UNCHANGED exceptMenu

\* chrome.storage.sync.get answers
MigrateGet ==
    /\ migration.pc = "get"
    /\ migration' = [migration EXCEPT !.pc = "set",
           !.read = [selectedFolder |-> selectedFolder,
                     storageVersion |-> storageVersion,
                     destinations |-> destinations]]
    /\ UNCHANGED <<menu, rebuilds, selectedFolder, storageVersion>>
    /\ UNCHANGED exceptMenu

\* migrateFromLegacy from the resumption to its end, chrome.storage.sync.set
\* included; storage.onChanged calls rebuildContextMenu when destinations
\* has changed
MigrateSet(id) ==
    /\ migration.pc = "set"
    /\ Len(rebuilds) < MaxRebuilds
    /\ LET m == MigrationOf(migration.read, id)
       IN  /\ storageVersion' = IF m.setsVersion THEN STORAGE_VERSION ELSE storageVersion
           /\ destinations' = IF m.setsDestinations THEN m.destinations ELSE destinations
           /\ rebuilds' = IF m.setsDestinations THEN Started(rebuilds) ELSE rebuilds
           /\ migration' = [migration EXCEPT !.pc = "returned", !.migrated = m.migrated]
    /\ UNCHANGED <<menu, selectedFolder>>
    /\ UNCHANGED <<schemaCalls, schemaStarted>>
    /\ UNCHANGED exceptSchemaAndMenu

\* onInstalled after migrateFromLegacy: rebuildContextMenu is called
OnInstalledRebuild ==
    /\ migration.pc = "returned"
    /\ Len(rebuilds) < MaxRebuilds
    /\ migration' = [migration EXCEPT !.pc = "idle"]
    /\ rebuilds' = Started(rebuilds)
    /\ UNCHANGED <<menu, selectedFolder, storageVersion>>
    /\ UNCHANGED exceptMenu

MenuNext ==
    \/ RebuildContextMenu
    \/ \E r \in 1..Len(rebuilds) : RemoveAll(r) \/ ReadDestinations(r) \/ CreateItems(r)
    \/ \E array \in StoredArrays : StoreDestinations(array)
    \/ MigrateFromLegacy
    \/ MigrateGet
    \/ \E id \in GeneratedIds : MigrateSet(id)
    \/ OnInstalledRebuild

MenuSpec == MenuInit /\ [][MenuNext]_vars

-----------------------------------------------------------------------------
(* Reference readings of the three containers, used to state the properties. *)
(* They are written from the formats' definitions (JPEG marker segments,     *)
(* PNG chunks, RIFF chunks, TIFF directories, CRC-32), not from the code.    *)

\* the call has settled
Done == pc = "done"

\* buf holds the bytes of prefix at (0-based) offset
StartsWith(buf, prefix, offset) ==
    /\ Len(buf) >= offset + Len(prefix)
    /\ \A i \in 1..Len(prefix) : buf[offset + i] = prefix[i]

\* the leading bytes match the signature of the declared format
SignatureMatches(type, buf) ==
    CASE type \in {"image/jpeg", "image/jpg"} -> StartsWith(buf, <<255, 216>>, 0)
      [] type = "image/png" -> StartsWith(buf, <<137, 80, 78, 71, 13, 10, 26, 10>>, 0)
      [] type = "image/webp" -> /\ StartsWith(buf, <<82, 73, 70, 70>>, 0)
                                /\ StartsWith(buf, <<87, 69, 66, 80>>, 8)
      [] OTHER -> FALSE

\* the declared type is one of the three JPEG, PNG, WebP families
DeclaredJpeg == blob.type \in {"image/jpeg", "image/jpg"}
DeclaredPng == blob.type = "image/png"
DeclaredWebp == blob.type = "image/webp"

\* the call returned a newly built buffer
Embedded == Done /\ result.settled = "fulfilled" /\ ~result.same

\* the call returned the bytes and the media type it was given
ReturnedOriginal ==
    result.settled = "fulfilled" /\ result.bytes = input /\ result.type = blob.type

\* big-endian 16-bit and (for values below 2^31) 32-bit reads at a 0-based offset
U16BEAt(buf, o) == buf[o + 1] * 256 + buf[o + 2]
U32BEAt(buf, o) ==
    buf[o + 1] * 16777216 + buf[o + 2] * 65536 + buf[o + 3] * 256 + buf[o + 4]
\* the four bytes at o are the big-endian form of a value below 2^31
Small32At(buf, o) == o + 4 <= Len(buf) /\ buf[o + 1] < 128

\* JPEG: the APP1 (FF E1) segments met walking the marker segments that follow
\* SOI, up to the first marker that opens no length-prefixed segment (SOS,
\* FF DA, and EOI, FF D9), a malformed length, or the end of the buffer
RECURSIVE App1CountFrom(_, _)
App1CountFrom(buf, o) ==
    IF o + 4 > Len(buf) \/ buf[o + 1] # 255 \/ buf[o + 2] \in {217, 218} THEN 0
    ELSE (IF buf[o + 2] = 225 THEN 1 ELSE 0)
         + (IF U16BEAt(buf, o + 2) < 2 THEN 0
            ELSE App1CountFrom(buf, o + 2 + U16BEAt(buf, o + 2)))
App1Count(buf) == IF StartsWith(buf, <<255, 216>>, 0) THEN App1CountFrom(buf, 2) ELSE 0

\* JPEG: the payload of the first APP1 segment after its "Exif\0\0" header,
\* i.e. the TIFF structure (empty when there is no such segment)
RECURSIVE FirstApp1From(_, _)
FirstApp1From(buf, o) ==
    IF o + 4 > Len(buf) \/ buf[o + 1] # 255 \/ buf[o + 2] \in {217, 218} THEN -1
    ELSE IF buf[o + 2] = 225 THEN o
    ELSE IF U16BEAt(buf, o + 2) < 2 THEN -1
    ELSE FirstApp1From(buf, o + 2 + U16BEAt(buf, o + 2))
TiffAt(buf, o) ==
    IF o < 0 \/ o + 2 + U16BEAt(buf, o + 2) > Len(buf) \/ U16BEAt(buf, o + 2) < 8 THEN <<>>
    ELSE SubSeq(buf, o + 11, o + 2 + U16BEAt(buf, o + 2))
TiffOf(buf) == TiffAt(buf, FirstApp1From(buf, 2))

\* TIFF: the 12-byte directory entry at offset o
IfdEntryAt(t, o) ==
    [tag |-> U16BEAt(t, o), type |-> U16BEAt(t, o + 2),
     small |-> Small32At(t, o + 4) /\ Small32At(t, o + 8),
     count |-> U32BEAt(t, o + 4), value |-> U32BEAt(t, o + 8)]
\* entry e has the tag and type, its count is the number of bytes of `bytes`,
\* and its offset leads, inside the data area, to exactly those bytes
EntryDescribes(t, e, tag, type, dataArea, bytes) ==
    /\ e.tag = tag /\ e.type = type /\ e.small
    /\ e.count = Len(bytes)
    /\ e.value >= dataArea
    /\ e.value + Len(bytes) <= Len(t)
    /\ SubSeq(t, e.value + 1, e.value + Len(bytes)) = bytes
\* a directory of exactly 3 entries at offset o, closed by a zero next-IFD pointer
ThreeEntryIfd(t, o) ==
    /\ o + 2 + 3 * 12 + 4 <= Len(t)
    /\ U16BEAt(t, o) = 3
    /\ SubSeq(t, o + 39, o + 42) = <<0, 0, 0, 0>>
\* the sub-IFD at offset sub: DateTimeOriginal, DateTimeDigitized, UserComment
ExifIfdConsistent(t, sub, dataArea, date, comment) ==
    /\ ThreeEntryIfd(t, sub)
    /\ EntryDescribes(t, IfdEntryAt(t, sub + 2), 36867, 2, dataArea, date)
    /\ EntryDescribes(t, IfdEntryAt(t, sub + 14), 36868, 2, dataArea, date)
    /\ EntryDescribes(t, IfdEntryAt(t, sub + 26), 37510, 7, dataArea, comment)
\* IFD0 at offset 8: ImageDescription, DateTime, ExifIFDPointer
Ifd0Consistent(t, ptr, dataArea, desc, date, comment) ==
    /\ ThreeEntryIfd(t, 8)
    /\ EntryDescribes(t, IfdEntryAt(t, 10), 270, 2, dataArea, desc)
    /\ EntryDescribes(t, IfdEntryAt(t, 22), 306, 2, dataArea, date)
    /\ ptr.tag = 34665 /\ ptr.type = 4 /\ ptr.small /\ ptr.count = 1
    /\ ptr.value = 8 + 2 + 3 * 12 + 4
    /\ ExifIfdConsistent(t, ptr.value, dataArea, date, comment)
\* the TIFF structure t is self-consistent for the description and date strings
TiffSelfConsistent(t, description, date) ==
    /\ Len(t) >= 8 + 2 * (2 + 3 * 12 + 4)
    /\ SubSeq(t, 1, 8) = <<77, 77, 0, 42, 0, 0, 0, 8>>
    /\ Ifd0Consistent(t, IfdEntryAt(t, 34), 8 + 2 * (2 + 3 * 12 + 4),
                      TextEncode(description) \o <<0>>, TextEncode(date) \o <<0>>,
                      <<65, 83, 67, 73, 73, 0, 0, 0>> \o TextEncode(description))

\* CRC-32 (ISO 3309, as PNG uses it), bit by bit without a table: the
\* register starts at all ones, each byte is exclusive-ored into its low byte
\* and the register is shifted right 8 times, the reflected polynomial
\* EDB88320 being exclusive-ored in whenever a one is shifted out; the result
\* is the complement of the register.
RECURSIVE Crc32Shift(_, _)
Crc32Shift(reg, n) ==
    IF n = 0 THEN reg
    ELSE Crc32Shift(IF reg[4] % 2 = 1 THEN Xor32(Shr1(reg), <<237, 184, 131, 32>>)
                    ELSE Shr1(reg), n - 1)
Crc32Byte(reg, byte) == Crc32Shift(<<reg[1], reg[2], reg[3], Xor8(reg[4], byte)>>, 8)
RECURSIVE Crc32Register(_, _, _, _)
Crc32Register(bytes, lo, hi, reg) ==
    IF lo > hi THEN reg
    ELSE IF lo = hi THEN Crc32Byte(reg, bytes[lo])
    ELSE CHOOSE r \in {Crc32Register(bytes, ((lo + hi) \div 2) + 1, hi, left) :
                          left \in {Crc32Register(bytes, lo, (lo + hi) \div 2, reg)}} : TRUE
Crc32Reference(bytes) ==
    [i \in 1..4 |-> 255 - Crc32Register(bytes, 1, Len(bytes), <<255, 255, 255, 255>>)[i]]

\* PNG: a well-formed chunk at offset o: a length below 2^31 that fits the
\* buffer, and the CRC-32 of its type and data
PngChunkAt(buf, o) ==
    /\ o + 12 <= Len(buf)
    /\ Small32At(buf, o)
    /\ U32BEAt(buf, o) <= Len(buf) - o - 12
    /\ SubSeq(buf, o + 9 + U32BEAt(buf, o), o + 12 + U32BEAt(buf, o))
         = Crc32Reference(SubSeq(buf, o + 5, o + 8 + U32BEAt(buf, o)))
\* the offset just behind the chunk at o
PngChunkEnd(buf, o) == o + 12 + U32BEAt(buf, o)
TypeIHDR == <<73, 72, 68, 82>>
TypeIEND == <<73, 69, 78, 68>>
TypeTEXt == <<116, 69, 88, 116>>
\* the chunks from offset o on are well-formed and the last of them, which
\* ends the buffer, is IEND
RECURSIVE PngChunksFrom(_, _)
PngChunksFrom(buf, o) ==
    /\ PngChunkAt(buf, o)
    /\ IF SubSeq(buf, o + 5, o + 8) = TypeIEND THEN PngChunkEnd(buf, o) = Len(buf)
       ELSE PngChunksFrom(buf, PngChunkEnd(buf, o))
\* a valid PNG: the signature, a 13-byte IHDR, further chunks, IEND
ValidPng(buf) ==
    /\ SignatureMatches("image/png", buf)
    /\ PngChunkAt(buf, 8)
    /\ U32BEAt(buf, 8) = 13
    /\ SubSeq(buf, 13, 16) = TypeIHDR
    /\ PngChunksFrom(buf, PngChunkEnd(buf, 8))

\* the keywords of the three text chunks, in their order
Keywords ==
    <<<<83, 111, 117, 114, 99, 101>>,
      <<67, 114, 101, 97, 116, 105, 111, 110, 32, 84, 105, 109, 101>>,
      <<67, 111, 109, 109, 101, 110, 116>>>>
\* at offset o of buf: a tEXt chunk whose data starts with the keyword and a
\* zero byte
TextChunkAt(buf, o, keyword) ==
    /\ o + 12 <= Len(buf)
    /\ Small32At(buf, o)
    /\ U32BEAt(buf, o) <= Len(buf) - o - 12
    /\ SubSeq(buf, o + 5, o + 8) = TypeTEXt
    /\ U32BEAt(buf, o) >= Len(keyword) + 1
    /\ SubSeq(buf, o + 9, o + 9 + Len(keyword)) = keyword \o <<0>>
\* buf[from .. to) is exactly three tEXt chunks with the three keywords
ThreeTextChunks(buf, from, to) ==
    /\ TextChunkAt(buf, from, Keywords[1])
    /\ TextChunkAt(buf, PngChunkEnd(buf, from), Keywords[2])
    /\ TextChunkAt(buf, PngChunkEnd(buf, PngChunkEnd(buf, from)), Keywords[3])
    /\ PngChunkEnd(buf, PngChunkEnd(buf, PngChunkEnd(buf, from))) = to
\* each of the three chunks of buf[from ..) carries the CRC-32 of its type
\* and data, and the first one's data is the keyword, a zero byte and text
ThreeChunksSealed(buf, from, text) ==
    /\ PngChunkAt(buf, from)
    /\ PngChunkAt(buf, PngChunkEnd(buf, from))
    /\ PngChunkAt(buf, PngChunkEnd(buf, PngChunkEnd(buf, from)))
    /\ U32BEAt(buf, from) = Len(Keywords[1]) + 1 + Len(text)
    /\ SubSeq(buf, from + 9, from + 8 + U32BEAt(buf, from)) = Keywords[1] \o <<0>> \o text

\* PNG: the IHDR chunk, with the length its first four bytes declare, lies
\* inside the buffer
IhdrWithin(buf) ==
    /\ SignatureMatches("image/png", buf)
    /\ Small32At(buf, 8)
    /\ U32BEAt(buf, 8) <= Len(buf) - 20
IhdrEnd(buf) == 8 + 4 + 4 + U32BEAt(buf, 8) + 4

\* RIFF: bytes 4-7 hold, little-endian, the length of the buffer minus 8
RiffSizeOk(buf) ==
    /\ Len(buf) >= 8
    /\ buf[5] = (Len(buf) - 8) % 256
    /\ buf[6] = ((Len(buf) - 8) \div 256) % 256
    /\ buf[7] = ((Len(buf) - 8) \div 65536) % 256
    /\ buf[8] = ((Len(buf) - 8) \div 16777216) % 256

\* WebP: the chunk tag at offset 12
TagAt12(buf, tag) == StartsWith(buf, tag, 12)
FourCcVP8 == <<86, 80, 56, 32>>
FourCcVP8L == <<86, 80, 56, 76>>
FourCcVP8X == <<86, 80, 56, 88>>
\* a byte of the buffer, an absent one reading as 0
ByteOr0(buf, o) == IF o < Len(buf) THEN buf[o + 1] ELSE 0
\* the dimensions the VP8 frame header (14 bits each, after the start code
\* at offset 23) or the VP8L header (14 bits each, minus one, after the
\* signature byte at offset 20) declares
DecodedWidth(buf) ==
    IF TagAt12(buf, FourCcVP8)
    THEN (ByteOr0(buf, 26) + 256 * ByteOr0(buf, 27)) % 16384
    ELSE ((ByteOr0(buf, 21) + 256 * ByteOr0(buf, 22)) % 16384) + 1
DecodedHeight(buf) ==
    IF TagAt12(buf, FourCcVP8)
    THEN (ByteOr0(buf, 28) + 256 * ByteOr0(buf, 29)) % 16384
    ELSE (((ByteOr0(buf, 22) + 256 * ByteOr0(buf, 23) + 65536 * ByteOr0(buf, 24))
              \div 64) % 16384) + 1
\* the canvas a VP8X header at offset 12 declares: the 24-bit little-endian
\* fields at offsets 24 and 27, plus 1
CanvasWidth(buf) == buf[25] + 256 * buf[26] + 65536 * buf[27] + 1
CanvasHeight(buf) == buf[28] + 256 * buf[29] + 65536 * buf[30] + 1
\* the output is an extended file: VP8X at offset 12, the XMP flag set
ExtendedWithXmp(buf) ==
    /\ Len(buf) >= 30
    /\ TagAt12(buf, FourCcVP8X)
    /\ (buf[21] \div 4) % 2 = 1
\* a simple (lossy or lossless) WebP file
SimpleWebp(buf) ==
    /\ SignatureMatches("image/webp", buf)
    /\ (TagAt12(buf, FourCcVP8) \/ TagAt12(buf, FourCcVP8L))

-----------------------------------------------------------------------------
(* The properties *)

\* C1: whenever the declared media type is none of image/jpeg, image/jpg,
\* image/png, image/webp, or the input's leading bytes do not match the
\* signature of the declared format, the settled call has returned bytes
\* identical to the input together with the original media type.
C1_UnrecognisedInputReturned ==
    (Done /\ ~SignatureMatches(blob.type, input)) => ReturnedOriginal

\* C1 witness: a call declaring image/webp for bytes that start with the PNG
\* signature has settled
C1_Witness ==
    /\ Done
    /\ DeclaredWebp
    /\ SignatureMatches("image/png", input)
    /\ ReturnedOriginal

\* C2: no call settles by rejection: every settled call is fulfilled, with
\* the untouched original and its original media type or with a newly built
\* buffer, and whenever the format injector throws, the result is the
\* original.
C2_FailureNeverSurfaces ==
    Done =>
        /\ result.settled = "fulfilled"
        /\ result.same => ReturnedOriginal
        /\ InjectorOutcome(blob.type, input, url, datetime, tz).thrown
              => (result.same /\ ReturnedOriginal)

\* C2 witness: a call whose injector threw (a recognised type, a non-empty
\* buffer with the right signature) has settled with the original
C2_Witness ==
    /\ Done
    /\ SignatureMatches(blob.type, input)
    /\ InjectorOutcome(blob.type, input, url, datetime, tz).thrown
    /\ ReturnedOriginal

\* C3: after embedding into a JPEG buffer that already contains an APP1
\* segment, wherever it is in the segment sequence, the output contains
\* exactly one APP1 segment.
C3_ExactlyOneApp1 ==
    (Embedded /\ DeclaredJpeg /\ App1Count(input) >= 1) => App1Count(result.bytes) = 1

\* C4: the TIFF payload of the embedded EXIF segment is self-consistent for
\* every description and datetime: both directories have exactly 3 entries
\* and a zero next-IFD pointer, the ExifIFDPointer is the sub-IFD's offset,
\* and every entry's offset leads inside the data area to exactly the bytes
\* of the string or prefix it describes, its count being their number.
C4_TiffSelfConsistent ==
    (Embedded /\ DeclaredJpeg) =>
        \E zone \in Zones :
            TiffSelfConsistent(TiffOf(result.bytes), StrSourcePrefix \o url,
                               FormatExifDatetime(datetime, zone))

\* C5: for every valid PNG input the output is the input's length plus the
\* combined length of three new chunks, each of which has a length field
\* equal to its data length and a stored CRC equal to the standard CRC-32 of
\* its type and data bytes.
C5_PngChunksSealed ==
    (Done /\ DeclaredPng /\ ValidPng(input)) =>
        /\ Embedded
        /\ Len(result.bytes) > Len(input)
        /\ ThreeTextChunks(result.bytes, IhdrEnd(input),
                           IhdrEnd(input) + Len(result.bytes) - Len(input))
        /\ ThreeChunksSealed(result.bytes, IhdrEnd(input), TextEncode(url))

\* C5 witness: a valid PNG with a non-empty url has been embedded into
C5_Witness ==
    /\ Embedded
    /\ DeclaredPng
    /\ ValidPng(input)
    /\ Len(url) > 0

C7_SimpleBecomesExtended ==
    (Done /\ DeclaredWebp /\ SimpleWebp(input)) =>
        /\ Embedded
        /\ ExtendedWithXmp(result.bytes)
        /\ CanvasWidth(result.bytes) = DecodedWidth(input)
        /\ CanvasHeight(result.bytes) = DecodedHeight(input)

\* C8 as stated: every output returned for a WebP input declares, in bytes
\* 4-7, its length minus 8.
C8_EveryOutputSized ==
    (Done /\ DeclaredWebp /\ SignatureMatches("image/webp", input)) =>
        RiffSizeOk(result.bytes)

\* C8: every newly built WebP output declares, in bytes 4-7 little-endian,
\* its length minus 8; a returned original declares what the input declared.
C8_BuiltOutputSized ==
    (Done /\ DeclaredWebp) =>
        /\ ~result.same => RiffSizeOk(result.bytes)
        /\ result.same => result.bytes = input

\* C8 witness: an output was built from a WebP input whose own size field
\* did not match its length
C8_Witness ==
    /\ Embedded
    /\ DeclaredWebp
    /\ ~RiffSizeOk(input)
    /\ RiffSizeOk(result.bytes)

C10_InputNeverModified ==
    /\ mem[blob.store] = input
    /\ (Done /\ result.same) => result.bytes = input

\* C10 witness: a VP8X input without the XMP flag was embedded into; the
\* injector's working copy has the flag in byte 20, the Blob's bytes have not
C10_Witness ==
    /\ Embedded
    /\ DeclaredWebp
    /\ TagAt12(input, FourCcVP8X)
    /\ Len(input) > 20
    /\ (input[21] \div 4) % 2 = 0
    /\ (mem["data"][21] \div 4) % 2 = 1
    /\ mem[blob.store] = input

-----------------------------------------------------------------------------
(* addJpegMetadata called on what it returned: the caller hands the JPEG   *)
(* of a call to a further call with the same url and datetime.             *)

\* what addImageMetadata is fulfilled with for a Blob of type image/jpeg
\* holding the bytes x: what addJpegMetadata built, or the Blob itself
JpegReturned(x, u, dt, zone) ==
    LET outcome == AddJpegMetadata(x, u, dt, zone)
    IN  IF outcome.thrown \/ outcome.ret = "blob" THEN x ELSE outcome.bytes

\* the arguments of the first call: every JPEG of Buffers with every url of
\* up to MaxShortUrl characters, and the bare JPEG with a url of MaxLongUrl
\* characters
AgainArguments ==
    {[bytes |-> b, url |-> UrlOfLength(n)] :
        b \in {x \in Buffers : JpegSignatureOk(x)}, n \in 0..MaxShortUrl}
    \cup {[bytes |-> JpegBare, url |-> UrlOfLength(MaxLongUrl)]}

AgainInit ==
    /\ \E a \in AgainArguments :
          /\ jpeg = [bytes |-> a.bytes, calls |-> 0, again |-> TRUE]
          /\ segmentUrl = a.url
    /\ segmentDate = [sec |-> 1767969045, ms |-> 0]
    /\ segmentBuilt = <<>>
    /\ tz = 0
    /\ NoSingleCall /\ OnlySegment

\* a call of addImageMetadata with the same url and datetime: the first with
\* the JPEG of the caller, every further one with the JPEG the first returned,
\* for as long as the calls have returned it again
AddJpegMetadataAgain ==
    /\ jpeg.calls < MaxCalls
    /\ jpeg.again
    /\ \E returned \in {JpegReturned(jpeg.bytes, segmentUrl, segmentDate, tz)} :
          jpeg' = IF jpeg.calls = 0
                  THEN [bytes |-> returned, calls |-> 1, again |-> TRUE]
                  ELSE [jpeg EXCEPT !.calls = @ + 1, !.again = (returned = jpeg.bytes)]
    /\ UNCHANGED <<segmentUrl, segmentDate, segmentBuilt, exceptSegment>>

AgainNext == AddJpegMetadataAgain

AgainSpec == AgainInit /\ [][AgainNext]_vars

-----------------------------------------------------------------------------
(* Concurrent calls *)

\* what a call with these arguments returns when it runs alone, from its
\* start to its return, in time zone zone
ResultAlone(args, zone) ==
    IF Injector(args.blob.type) = "none"
    THEN FulfilledWithBlob([blob |-> args.blob.bytes],
                           [store |-> "blob", type |-> args.blob.type])
    ELSE Settle(InjectorOutcome(args.blob.type, args.blob.bytes, args.url,
                                args.datetime, zone),
                [blob |-> args.blob.bytes], [store |-> "blob", type |-> args.blob.type])

\* C11: however the steps of several calls interleave at their suspension
\* points, every call that has returned has returned exactly what it
\* returns when run alone.
C11_CallsIndependent ==
    \A i \in TaskIds :
        tasks[i].pc = "done" => tasks[i].result = ResultAlone(tasks[i].args, tz)

\* C11 witness: call 1 was suspended while call 2, made with other
\* arguments, ran from its start to its suspension; call 1 has since
\* returned a newly built buffer and call 2 is still suspended
C11_Witness ==
    /\ tasks # <<>>
    /\ tasks[1].pc = "done"
    /\ ~tasks[1].result.same
    /\ tasks[2].pc = "await"
    /\ tasks[2].args # tasks[1].args
    /\ heap[2] = tasks[2].args.blob.bytes
    /\ heap[1] # heap[2]

-----------------------------------------------------------------------------
(* The description text of the JPEG segment *)

\* the bytes of buf from offset o (counted from 0), n of them
BytesAt(buf, o, n) == SubSeq(buf, o + 1, o + n)

\* "Source: " page " | Image: " image, spelled out, as UTF-8
ExpectedDescription ==
    TextEncode(<<83, 111, 117, 114, 99, 101, 58, 32>> \o pageUrl
               \o <<32, 124, 32, 73, 109, 97, 103, 101, 58, 32>> \o imageUrl)

-----------------------------------------------------------------------------
(* Duplicate detection *)

\* the entries of an imageHashes object
Entries(hashes) == {hashes[i] : i \in 1..Len(hashes)}
\* the destinations recorded for an image
Recorded(hashes, image) ==
    {d \in DestinationIds :
        \E e \in Entries(hashes) :
            e.hash = image /\ \E i \in 1..Len(e.destinations) : e.destinations[i] = d}

\* C13: in global mode, whatever the interleaving of the runs of
\* saveToDestination and retryPendingSave, no image is saved by the
\* providers more than once (no hash is ever removed in these runs).
C13_SavedAtMostOnce ==
    duplicateMode = "global" =>
        \A i \in ImageIds :
            /\ \A d \in DestinationIds : uploads[d][i] <= 1
            /\ Cardinality({d \in DestinationIds : uploads[d][i] > 0}) <= 1

C14_Step ==
    duplicateMode = "per-destination" =>
        /\ \A p \in OpIds :
              ops[p].pc = "check" /\ ops'[p].pc # "check" =>
                  /\ (ops'[p].pc = "done" /\ ops'[p].reason = "duplicate")
                         <=> ops[p].destinationId \in Recorded(imageHashes, ops[p].image)
                  /\ ops'[p].pc = "upload"
                         <=> ops[p].destinationId \notin Recorded(imageHashes, ops[p].image)
        /\ \A p \in OpIds :
              ops[p].pc = "storeSet" /\ ops'[p].pc # "storeSet" =>
                  ops[p].destinationId \in Recorded(imageHashes', ops[p].image)
        /\ (\A p \in OpIds : ~(ops[p].pc = "cleanupSet" /\ ops'[p].pc = "done")) =>
              \A i \in ImageIds : Recorded(imageHashes, i) \subseteq Recorded(imageHashes', i)

C16_Step ==
    \A p \in OpIds :
        (/\ ops[p].pc = "cleanupSet" /\ ops'[p].pc = "done"
         /\ now - ops[p].lastCleanup >= 24 * 60) =>
            /\ Len(imageHashes') <= MAX_STORED_HASHES
            /\ Entries(imageHashes') \subseteq Entries(ops[p].hashes)
            /\ \A r \in Entries(ops[p].hashes) \ Entries(imageHashes') :
               \A k \in Entries(imageHashes') : r.timestamp <= k.timestamp
            /\ Len(ops[p].hashes) - Len(imageHashes') > 0 =>
                   \/ Len(imageHashes') = MAX_STORED_HASHES
                   \/ \A r \in Entries(ops[p].hashes) \ Entries(imageHashes') :
                          r.timestamp < now - 90 * 24 * 60

C17_OldHashNotReported ==
    \A p \in OpIds :
        ops[p].pc = "done" /\ ops[p].reason = "duplicate" =>
            \E e \in Entries(imageHashes) :
                e.hash = ops[p].image /\ now - e.timestamp <= 90 * 24 * 60

\* the step is the start of retryPendingSave in run p: a run is started, no
\* time passes, no other run changes, and run p is a retry afterwards
C18_RetryStarts(p) ==
    /\ started' = started + 1
    /\ now' = now
    /\ \A q \in OpIds \ {p} : ops'[q] = ops[q]
    /\ ops[p].pc \in {"idle", "done"}
    /\ ops'[p].kind = "retry"

\* the steps of retryPendingSave when the pending save is too old
C18_Step ==
    \A p \in OpIds :
        /\ (/\ C18_RetryStarts(p)
            /\ pendingSave.present /\ now - pendingSave.timestamp > 10) =>
               /\ ops'[p].pc = "expire"
               /\ ~ops'[p].fetched /\ ~ops'[p].uploaded /\ ~ops'[p].stored
               /\ uploads' = uploads /\ imageHashes' = imageHashes
        /\ (/\ C18_RetryStarts(p)
            /\ pendingSave.present /\ now - pendingSave.timestamp <= 10) =>
               ops'[p].pc # "expire"
        /\ ops[p].pc = "expire" /\ ops'[p] # ops[p] =>
               /\ ops'[p].pc = "done" /\ ops'[p].reason = "expired"
               /\ ~pendingSave'.present
               /\ ~ops'[p].fetched /\ ~ops'[p].uploaded /\ ~ops'[p].stored
               /\ uploads' = uploads /\ imageHashes' = imageHashes

\* C18: retryPendingSave that finds a pendingSave more than 10 minutes old
\* (and only then) takes the expiry path: it removes pendingSave and returns
\* 'expired' without fetching the image, saving a file or writing a hash.
C18_ExpiredPendingSaveDropped == [][C18_Step]_vars

\* C18 witness: a retry has returned 'expired' and pendingSave is gone
C18_Witness ==
    /\ ops # <<>>
    /\ ops[1].kind = "retry" /\ ops[1].pc = "done" /\ ops[1].reason = "expired"
    /\ ops[1].pendingAge > 10
    /\ ~pendingSave.present

-----------------------------------------------------------------------------
(* The destinations *)

\* the step of a function of storage-schema.js
C15_Step ==
    /\ Len(destinations) <= MAX_DESTINATIONS
    /\ Len(destinations') <= MAX_DESTINATIONS
    /\ \A c \in SchemaCallIds :
          (/\ schemaCalls[c].pc = "read" /\ schemaCalls'[c].pc = "returned"
           /\ schemaCalls[c].name = "addDestination"
           /\ Len(schemaCalls[c].read) >= MAX_DESTINATIONS) =>
              /\ schemaCalls'[c].result = "error"
              /\ destinations' = destinations

\* C15: whatever the calls of addDestination, updateDestination,
\* removeDestination and reorderDestinations and however they overlap, the
\* destinations array stored never has more than MAX_DESTINATIONS entries, and
\* an addDestination that reads MAX_DESTINATIONS entries throws and writes
\* nothing.
C15_AtMostMaxDestinations == [][C15_Step]_vars

\* C15 witness: with MAX_DESTINATIONS entries stored an addDestination has
\* thrown, and the entries are still stored
C15_Witness ==
    /\ schemaCalls # <<>>
    /\ \E c \in SchemaCallIds :
          /\ schemaCalls[c].name = "addDestination"
          /\ schemaCalls[c].pc = "returned"
          /\ schemaCalls[c].result = "error"
    /\ Len(destinations) = MAX_DESTINATIONS

-----------------------------------------------------------------------------
(* The tokens *)

\* the run r of refreshAccessToken returns in this step
C19_Returns(r) == refreshes[r].pc = "set" /\ refreshes'[r].pc = "done"

C19_Step ==
    \A r \in RefreshIds :
        C19_Returns(r) =>
            /\ tokens'.stored
            /\ tokens'.refreshToken # ""
            /\ tokens'.refreshToken =
                   IF refreshes[r].response.refresh_token # ""
                   THEN refreshes[r].response.refresh_token
                   ELSE refreshes[r].tokens.refreshToken

\* C19: when refreshAccessToken returns, a refresh token is stored: the
\* refresh_token of the response when it has one, otherwise the refresh token
\* that was stored when the call began.
C19_RefreshTokenPreserved == [][C19_Step]_vars

\* a run has returned after a response without refresh_token, other tokens
\* were stored in between, and the refresh token the run began with is stored
C19_Witness ==
    \E r \in RefreshIds :
        /\ refreshes[r].pc = "done"
        /\ ~refreshes[r].error.thrown
        /\ refreshes[r].response.status = "ok"
        /\ refreshes[r].response.refresh_token = ""
        /\ refreshes[r].existing.refreshToken # refreshes[r].tokens.refreshToken
        /\ tokens.stored
        /\ tokens.refreshToken = refreshes[r].tokens.refreshToken

\* the run r of refreshAccessToken throws in this step
C20_Throws(r) == ~refreshes[r].error.thrown /\ refreshes'[r].error.thrown

C20_Step ==
    \A r \in RefreshIds :
        C20_Throws(r) =>
            IF /\ refreshes[r].pc = "failed"
               /\ refreshes[r].response.error \in {"invalid_grant", "invalid_request"}
            THEN tokens' = NoStoredTokens /\ refreshes'[r].error.requiresReauth
            ELSE tokens' = tokens /\ ~refreshes'[r].error.requiresReauth

\* C20: when refreshAccessToken throws after the token endpoint answered
\* invalid_grant or invalid_request, the tokens are removed from storage and
\* the error has requiresReauth true; when it throws for any other reason the
\* stored tokens stay as they are and the error has no requiresReauth.
C20_ReauthOnlyOnInvalidGrant == [][C20_Step]_vars

\* a run was answered invalid_request: no tokens are stored, its error asks
\* for a new sign-in and the notification was created
C20_Witness ==
    \E r \in RefreshIds :
        /\ refreshes[r].pc = "done"
        /\ refreshes[r].response.error = "invalid_request"
        /\ refreshes[r].error.requiresReauth
        /\ ~tokens.stored
        /\ notifications >= 1

-----------------------------------------------------------------------------
(* The WebP chunks *)

\* the value of the four little-endian bytes at offset o (counted from 0)
U32LEAt(buf, o) ==
    buf[o + 1] + buf[o + 2] * 256 + buf[o + 3] * 65536 + buf[o + 4] * 16777216

ExtendedWebp(buf) == SignatureMatches("image/webp", buf) /\ TagAt12(buf, FourCcVP8X)

\* the VP8X chunk of buf declares a size below 2^31, and the chunk after it
\* begins inside buf or at its end
Vp8xEndWithin(buf) ==
    /\ Len(buf) >= 20
    /\ buf[20] < 128
    /\ U32LEAt(buf, 16) <= Len(buf)
    /\ 20 + U32LEAt(buf, 16) + (U32LEAt(buf, 16) % 2) <= Len(buf)
\* the offset of the chunk after the VP8X chunk
Vp8xEnd(buf) == 20 + U32LEAt(buf, 16) + (U32LEAt(buf, 16) % 2)

\* byte with bit 2 set
WithBit2(byte) == IF (byte \div 4) % 2 = 1 THEN byte ELSE byte + 4

\* out is buf with an 'XMP ' chunk put in at offset pos, bit 2 of the byte at
\* offset 20 (when buf has one) set and bytes 4-7 holding the length of out
\* minus 8
XmpInsertedAt(out, buf, pos) ==
    LET n == Len(out) - Len(buf)
    IN  /\ n >= 8
        /\ pos >= 0
        /\ pos <= Len(buf)
        /\ RiffSizeOk(out)
        /\ StartsWith(out, <<88, 77, 80, 32>>, pos)
        /\ 8 + U32LEAt(out, pos + 4) + (U32LEAt(out, pos + 4) % 2) = n
        /\ \A i \in 1..pos :
               out[i] = IF i \in 5..8 THEN out[i]
                        ELSE IF i = 21 THEN WithBit2(buf[i])
                        ELSE buf[i]
        /\ \A i \in (pos + 1)..Len(buf) :
               out[i + n] = IF i \in 5..8 THEN out[i + n]
                            ELSE IF i = 21 THEN WithBit2(buf[i])
                            ELSE buf[i]
XmpSplicedAt(out, buf, pos) == Len(buf) > 20 /\ XmpInsertedAt(out, buf, pos)

\* C24: for every WebP input whose chunk at offset 12 is VP8X, the output is
\* the input with bit 2 of the byte at offset 20 set, the XMP chunk put in at
\* offset 20 + declared VP8X size + (1 if that size is odd) and bytes 4-7
\* patched; all other bytes of the input are there, in order.
C24_ExtendedSplice ==
    (Done /\ DeclaredWebp /\ ExtendedWebp(input)) =>
        /\ Embedded
        /\ Vp8xEndWithin(input)
        /\ XmpSplicedAt(result.bytes, input, Vp8xEnd(input))

\* the dimensions of a simple WebP file cannot be read: a 'VP8 ' chunk
\* without the start code 9D 01 2A at offset 23, or a 'VP8L' chunk without
\* the signature byte 2F at offset 20
NoDimensionsIn(buf) ==
    \/ TagAt12(buf, FourCcVP8) /\ ~StartsWith(buf, <<157, 1, 42>>, 23)
    \/ TagAt12(buf, FourCcVP8L) /\ ~StartsWith(buf, <<47>>, 20)
\* the chunk at offset 12 is none of 'VP8 ', 'VP8L', 'VP8X'
UnknownFirstChunk(buf) ==
    ~TagAt12(buf, FourCcVP8) /\ ~TagAt12(buf, FourCcVP8L) /\ ~TagAt12(buf, FourCcVP8X)

\* C25: a WebP input whose dimensions cannot be read, or whose chunk at offset
\* 12 is none of 'VP8 ', 'VP8L', 'VP8X', is returned as it was given: the same
\* Blob, the same bytes, no chunk added.
C25_UnparsableReturned ==
    (/\ Done
     /\ DeclaredWebp
     /\ SignatureMatches("image/webp", input)
     /\ (NoDimensionsIn(input) \/ UnknownFirstChunk(input)))
        => (result.same /\ ReturnedOriginal)

\* C25 witness: a 'VP8 ' file that has its frame header but not the start code
\* came back unchanged
C25_Witness ==
    /\ Done
    /\ DeclaredWebp
    /\ SignatureMatches("image/webp", input)
    /\ TagAt12(input, FourCcVP8)
    /\ Len(input) >= 30
    /\ NoDimensionsIn(input)
    /\ result.same
    /\ ReturnedOriginal

\* out is the RIFF header of buf with bytes 4-7 holding the length of out
\* minus 8, then an 18-byte VP8X chunk of size 10 with its reserved bytes
\* zero, then an 'XMP ' chunk, then buf from offset 12 on
ConvertedFrom(out, buf) ==
    LET n == Len(out) - Len(buf) - 18
    IN  /\ n >= 8
        /\ SubSeq(out, 1, 4) = SubSeq(buf, 1, 4)
        /\ RiffSizeOk(out)
        /\ SubSeq(out, 9, 12) = SubSeq(buf, 9, 12)
        /\ StartsWith(out, <<86, 80, 56, 88, 10, 0, 0, 0>>, 12)
        /\ SubSeq(out, 22, 24) = <<0, 0, 0>>
        /\ StartsWith(out, <<88, 77, 80, 32>>, 30)
        /\ 8 + U32LEAt(out, 34) + (U32LEAt(out, 34) % 2) = n
        /\ SubSeq(out, 30 + n + 1, Len(out)) = SubSeq(buf, 13, Len(buf))
\* out without the 18 + n bytes at offset 12, bytes 4-7 put back
WithoutNewChunks(out, n, sizeField) ==
    SubSeq(out, 1, 4) \o sizeField \o SubSeq(out, 9, 12)
    \o SubSeq(out, 12 + 18 + n + 1, Len(out))

\* C26: for a simple WebP input whose dimensions can be read, the output is
\* the 12-byte RIFF header with its size patched, the 18-byte VP8X chunk (size
\* 10, reserved bytes zero), the XMP chunk and the input from offset 12 on;
\* taking the two chunks out and putting the size field back gives the input.
C26_SimpleRebuilt ==
    (Done /\ DeclaredWebp /\ SimpleWebp(input) /\ ~NoDimensionsIn(input)) =>
        /\ Embedded
        /\ result.type = "image/webp"
        /\ ConvertedFrom(result.bytes, input)
        /\ WithoutNewChunks(result.bytes, Len(result.bytes) - Len(input) - 18,
                            SubSeq(input, 5, 8)) = input

\* C26 witness: a 'VP8L' file with its signature byte was rebuilt
C26_Witness ==
    /\ Embedded
    /\ DeclaredWebp
    /\ TagAt12(input, FourCcVP8L)
    /\ ~NoDimensionsIn(input)
    /\ Len(input) > 20
    /\ ConvertedFrom(result.bytes, input)

-----------------------------------------------------------------------------
(* The JPEG splice *)

\* the insertion offset: 2, or 4 + the declared APP0 length when an APP0
\* segment follows SOI
SpliceOffset(buf) ==
    IF StartsWith(buf, <<255, 224>>, 2)
    THEN 4 + ByteOr0(buf, 4) * 256 + ByteOr0(buf, 5)
    ELSE 2
\* buf without the APP1 segment at offset o (marker and declared length), or
\* buf when there is none
Trimmed(buf, o) ==
    IF StartsWith(buf, <<255, 225>>, o)
    THEN SubSeq(buf, 1, o)
         \o SubSeq(buf, o + 2 + ByteOr0(buf, o + 2) * 256 + ByteOr0(buf, o + 3) + 1, Len(buf))
    ELSE buf
\* out is trimmed with an APP1 segment, as long as its length field says, put
\* in at offset o
App1SplicedAt(out, trimmed, o) ==
    LET n == Len(out) - Len(trimmed)
    IN  /\ o <= Len(trimmed)
        /\ n >= 4
        /\ SubSeq(out, 1, o) = SubSeq(trimmed, 1, o)
        /\ StartsWith(out, <<255, 225>>, o)
        /\ 2 + U16BEAt(out, o + 2) = n
        /\ SubSeq(out, o + n + 1, Len(out)) = SubSeq(trimmed, o + 1, Len(trimmed))

\* C27: a JPEG output that was built is trimmed[0 .. offset), the new APP1
\* segment, trimmed[offset ..), where offset is 2, or 4 + the declared APP0
\* length when bytes 2-3 are FF E0, and trimmed is the input without the APP1
\* segment found at that offset; the bytes before and after are unchanged.
C27_JpegSplice ==
    (Embedded /\ DeclaredJpeg) =>
        /\ result.type = "image/jpeg"
        /\ App1SplicedAt(result.bytes, Trimmed(input, SpliceOffset(input)),
                         SpliceOffset(input))

\* C27 witness: an input with an APP0 segment, an APP1 segment behind it and
\* more bytes after that was spliced into
C27_Witness ==
    /\ Embedded
    /\ DeclaredJpeg
    /\ SpliceOffset(input) > 2
    /\ Trimmed(input, SpliceOffset(input)) # input
    /\ Len(Trimmed(input, SpliceOffset(input))) > SpliceOffset(input)
    /\ App1SplicedAt(result.bytes, Trimmed(input, SpliceOffset(input)),
                     SpliceOffset(input))

-----------------------------------------------------------------------------
(* The APP1 segment *)

\* C28: for a url of any length, the two bytes after the marker FF E1 of the
\* segment createJpegExifSegment returns give, big-endian, the number of
\* bytes of the segment that follow the marker: 2 for the field itself, 6 for
\* "Exif\0\0" and the length of the TIFF data.
C28_LengthFieldExact ==
    segmentBuilt # <<>> =>
        /\ SubSeq(segmentBuilt, 1, 2) = <<255, 225>>
        /\ SubSeq(segmentBuilt, 5, 10) = <<69, 120, 105, 102, 0, 0>>
        /\ U16BEAt(segmentBuilt, 2) = 2 + 6 + Len(SubSeq(segmentBuilt, 11, Len(segmentBuilt)))

\* the offset of the data area in the TIFF structure: behind the header and
\* the two directories
DataArea == 8 + 2 * (2 + 3 * 12 + 4)

\* entry e is an ASCII entry with the tag, counting the bytes of date
DateEntry(e, tag, date) == e.tag = tag /\ e.type = 2 /\ e.small /\ e.count = Len(date)

\* the entries DateTime, DateTimeOriginal and DateTimeDigitized of t count the
\* bytes of date and lead to three copies of it, one after the other, behind
\* the description desc at the start of the data area
DateEntriesReferToCopies(t, desc, date) ==
    /\ Len(t) >= DataArea + Len(desc) + 3 * Len(date)
    /\ EntryDescribes(t, IfdEntryAt(t, 22), 306, 2, DataArea, date)
    /\ EntryDescribes(t, IfdEntryAt(t, 52), 36867, 2, DataArea, date)
    /\ EntryDescribes(t, IfdEntryAt(t, 64), 36868, 2, DataArea, date)
    /\ IfdEntryAt(t, 22).value = DataArea + Len(desc)
    /\ IfdEntryAt(t, 52).value = DataArea + Len(desc) + Len(date)
    /\ IfdEntryAt(t, 64).value = DataArea + Len(desc) + 2 * Len(date)

DateEntriesAndCopies(t, desc, descLength, date) ==
    /\ Len(t) >= DataArea + Len(desc) + 3 * Len(date)
    /\ DateEntry(IfdEntryAt(t, 22), 306, date)
    /\ DateEntry(IfdEntryAt(t, 52), 36867, date)
    /\ DateEntry(IfdEntryAt(t, 64), 36868, date)
    /\ IfdEntryAt(t, 22).value = DataArea + descLength
    /\ IfdEntryAt(t, 52).value = DataArea + descLength + Len(date)
    /\ IfdEntryAt(t, 64).value = DataArea + descLength + 2 * Len(date)
    /\ SubSeq(t, DataArea + 1, DataArea + Len(desc)) = desc
    /\ SubSeq(t, DataArea + Len(desc) + 1, DataArea + Len(desc) + 3 * Len(date))
         = date \o date \o date

-----------------------------------------------------------------------------
(* Length fields that lead outside the input *)

\* the four bytes at offset o read as the code reads them, as a signed 32-bit
\* number, most significant byte first or last; absent bytes read as 0
Signed32(b3, b2, b1, b0) ==
    (IF b3 >= 128 THEN b3 - 256 ELSE b3) * 16777216 + b2 * 65536 + b1 * 256 + b0
SignedBEAt(buf, o) ==
    Signed32(ByteOr0(buf, o), ByteOr0(buf, o + 1), ByteOr0(buf, o + 2), ByteOr0(buf, o + 3))
SignedLEAt(buf, o) ==
    Signed32(ByteOr0(buf, o + 3), ByteOr0(buf, o + 2), ByteOr0(buf, o + 1), ByteOr0(buf, o))
\* the remainder whose sign is the dividend's
Rem2(v) == IF v % 2 = 0 THEN 0 ELSE IF v < 0 THEN -1 ELSE 1

\* the input is spliced into by way of a length field it declares
SplicedByLength ==
    \/ DeclaredJpeg /\ SignatureMatches("image/jpeg", input)
    \/ DeclaredPng /\ SignatureMatches("image/png", input)
    \/ DeclaredWebp /\ ExtendedWebp(input)
\* the insertion offset computed from that length field
ComputedOffset ==
    IF DeclaredJpeg THEN SpliceOffset(input)
    ELSE IF DeclaredPng THEN 8 + 4 + 4 + SignedBEAt(input, 8) + 4
    ELSE 20 + SignedLEAt(input, 16) + Rem2(SignedLEAt(input, 16))

\* out is buf with exactly the three text chunks put in at offset pos
TextChunksInsertedAt(out, buf, pos) ==
    LET n == Len(out) - Len(buf)
    IN  /\ n > 0
        /\ pos >= 0
        /\ pos <= Len(buf)
        /\ SubSeq(out, 1, pos) = SubSeq(buf, 1, pos)
        /\ ThreeTextChunks(out, pos, pos + n)
        /\ SubSeq(out, pos + n + 1, Len(out)) = SubSeq(buf, pos + 1, Len(buf))

\* the result is a whole: the bytes it was given (less an APP1 segment that
\* was replaced) with the whole of the new metadata at one place
CompleteOutput ==
    IF DeclaredJpeg
    THEN App1SplicedAt(result.bytes, Trimmed(input, ComputedOffset), ComputedOffset)
    ELSE IF DeclaredPng
    THEN TextChunksInsertedAt(result.bytes, input, ComputedOffset)
    ELSE IF ExtendedWebp(input)
    THEN XmpInsertedAt(result.bytes, input, ComputedOffset)
    ELSE ConvertedFrom(result.bytes, input)

\* C30: when the length field read from the input (APP0 length, IHDR length,
\* VP8X size, the top bit read as the sign) puts the computed insertion
\* offset outside 0 .. input length, the original is returned unchanged; and
\* whatever the input, what is returned is either the original or a complete
\* output, never one with gap bytes, missing original bytes or a part of the
\* metadata.
C30_OriginalOrComplete ==
    Done =>
        /\ (SplicedByLength /\ ComputedOffset \notin 0..Len(input))
               => (result.same /\ ReturnedOriginal)
        /\ result.settled = "fulfilled"
        /\ result.same => ReturnedOriginal
        /\ ~result.same => CompleteOutput

\* C30 witness: a VP8X chunk with the top bit of its size set gave a negative
\* offset, and the original came back
C30_Witness ==
    /\ Done
    /\ DeclaredWebp
    /\ ExtendedWebp(input)
    /\ Len(input) > 20
    /\ input[20] >= 128
    /\ ComputedOffset < 0
    /\ result.same
    /\ ReturnedOriginal

-----------------------------------------------------------------------------
(* The context menu *)

\* the destination an item of the menu was created for
DestinationOfItem(item, array) ==
    CHOOSE i \in 1..Len(array) : item.id = <<"saveme-", array[i].id>>
\* the items are those the destinations ask for
MenuReflects(items, array) ==
    IF Len(array) = 0
    THEN /\ Len(items) = 1
         /\ items[1].id = <<"saveme-", "setup">>
         /\ items[1].parentId = <<>>
         /\ items[1].title = <<"SaveMe - Setup Required">>
    ELSE IF Len(array) = 1
    THEN /\ Len(items) = 1
         /\ items[1].id = <<"saveme-", array[1].id>>
         /\ items[1].parentId = <<>>
    ELSE /\ Len(items) = Len(array) + 1
         /\ items[1].id = <<"saveme-", "parent">>
         /\ items[1].parentId = <<>>
         /\ \A i \in 2..Len(items) : items[i].parentId = items[1].id
         /\ {items[i].id : i \in 2..Len(items)}
                = {<<"saveme-", array[i].id>> : i \in 1..Len(array)}
         /\ \A i, j \in 2..Len(items) :
                i < j => array[DestinationOfItem(items[i], array)].order
                             <= array[DestinationOfItem(items[j], array)].order

\* run r ends in this step, and no other run was under way during it
EndsAlone(r) ==
    /\ rebuilds[r].pc = "create"
    /\ ~rebuilds[r].overlapped
    /\ rebuilds' = <<>>

C21_Step == \A r \in DOMAIN rebuilds : EndsAlone(r) => MenuReflects(menu', destinations')

\* C21: when a run of rebuildContextMenu ends and no other run was under way
\* between its start and its end, the menu holds one 'Setup Required' item
\* for no destination, one flat item saveme-<id> for one destination, and
\* for two or more a parent and one child per destination, the children in
\* ascending order of the field order
C21_MenuReflectsDestinations == [][C21_Step]_vars

\* a menu has been built with two destinations stored, whose sequence in
\* the array is not that of the field order, and no run is under way
C21_Witness ==
    /\ rebuilds = <<>>
    /\ Len(destinations) >= 2
    /\ destinations[1].order > destinations[2].order
    /\ Len(menu) = 3
    /\ menu[2].id = <<"saveme-", destinations[2].id>>

-----------------------------------------------------------------------------
(* The migration *)

\* migrateFromLegacy returns in this step
MigrationReturns == migration.pc = "set" /\ migration'.pc = "returned"
\* the storage of version 1: a folder, no destination, no version 2
LegacyStorage ==
    /\ selectedFolder.stored
    /\ destinations = <<>>
    /\ storageVersion < 2
\* the destination made of the folder
MigratedFrom(folder, array) ==
    /\ Len(array) = 1
    /\ array[1].type = "onedrive"
    /\ array[1].order = 0
    /\ array[1].folderId = folder.id
    /\ array[1].folderName = folder.name
C22_Migrates ==
    MigrationReturns /\ LegacyStorage
        => /\ MigratedFrom(selectedFolder, destinations')
           /\ storageVersion' = 2
           /\ selectedFolder' = selectedFolder
C22_KeepsDestinations ==
    MigrationReturns /\ destinations # <<>> => destinations' = destinations
C22_FurtherCall ==
    MigrationReturns /\ migration.call = 2
        => /\ ~migration'.migrated
           /\ UNCHANGED <<destinations, storageVersion, selectedFolder, menu, rebuilds>>

-----------------------------------------------------------------------------
(* The pending save *)

\* run p returns in this step
OpReturns(p) == ops[p].pc # "done" /\ ops'[p].pc = "done"
\* saveToDestination to a OneDrive destination returns because the provider
\* is not ready, or because saveFile asked for a new authentication
C31_Written ==
    \A p \in OpIds :
        /\ OpReturns(p) /\ ops'[p].kind = "save"
        /\ DestinationType(ops'[p].destinationId) = "onedrive"
        /\ \/ ops'[p].reason = "not_ready"
           \/ ops[p].pc = "upload" /\ pendingSave' # pendingSave
        => pendingSave' = PendingSaveOf(ops'[p].destinationId, ops'[p].image, now)
\* what a returning retryPendingSave does to the record
C31_Retried ==
    \A p \in OpIds :
        OpReturns(p) /\ ops'[p].kind = "retry" =>
            /\ ops'[p].reason \in {"saved", "duplicate", "expired", "no_destination"}
                   => ~pendingSave'.present
            /\ ops'[p].reason \in {"not_ready", "error"}
                   => pendingSave' = pendingSave
\* steps that are not the return of a retry remove no record
C31_OnlyRetryRemoves ==
    pendingSave.present /\ ~pendingSave'.present
        => \E p \in OpIds : OpReturns(p) /\ ops'[p].kind = "retry"

\* C31: saveToDestination to a OneDrive destination writes pendingSave when
\* the provider is not ready or saveFile fails with requiresReauth;
\* retryPendingSave removes it when it returns success, duplicate, expired
\* or no_destination and leaves it as it is when it returns not_ready or
\* error; nothing else removes it, and a later pending save replaces the
\* earlier one
C31_PendingSaveLifecycle == [][C31_Written /\ C31_Retried /\ C31_OnlyRetryRemoves]_vars

\* a retry has failed and the pending save a save had written is still stored
C31_Witness ==
    /\ ops # <<>>
    /\ ops[1].kind = "retry" /\ ops[1].pc = "done" /\ ops[1].reason = "error"
    /\ pendingSave.present
    /\ pendingSave.destinationId = "d1"

-----------------------------------------------------------------------------
(* The hashes recorded *)

\* every hash stored belongs to an image some provider has saved
HashesOfSavedImages ==
    \A i \in 1..Len(imageHashes) :
        \E d \in DOMAIN uploads : uploads[d][imageHashes[i].hash] > 0
\* imageHashes is written by runs whose saveFile has succeeded, and a run that
\* returns without a saved file has written nothing
C32_Step ==
    /\ imageHashes' # imageHashes =>
           \E p \in OpIds : /\ ops[p].uploaded
                            /\ ops[p].pc \in {"storeSet", "cleanupSet"}
                            /\ ops'[p] # ops[p]
    /\ \A p \in OpIds :
           OpReturns(p) /\ ops'[p].reason \in {"error", "duplicate", "not_ready"} =>
               /\ ~ops'[p].uploaded /\ ~ops'[p].stored
               /\ imageHashes' = imageHashes

\* C32: a hash is recorded only after the provider has saved the file: a run
\* of saveToDestination or retryPendingSave that ends with a failed fetch, a
\* duplicate, a provider that is not ready or a saveFile without success
\* leaves imageHashes as it is, and every hash stored is that of an image a
\* saveFile has saved
C32_HashAfterSave == []HashesOfSavedImages /\ [][C32_Step]_vars

\* a failed run has returned after another run recorded the hash of its image
C32_Witness ==
    /\ ops # <<>>
    /\ ops[1].pc = "done" /\ ops[1].reason = "error" /\ ops[1].fetched
    /\ imageHashes # <<>>
    /\ \E i \in 1..Len(imageHashes) : imageHashes[i].timestamp >= NowAtStart

-----------------------------------------------------------------------------
(* The change of the duplicate mode *)

\* the entries recorded in mode global: those without destinations
GlobalEntries(hashes) == {hashes[i] : i \in {j \in 1..Len(hashes) : ~hashes[j].hasDestinations}}
EntriesOf(hashes) == {hashes[i] : i \in 1..Len(hashes)}
\* every entry without destinations blocks its image in every destination
\* in mode per-destination
GlobalEntriesBlock(hashes) ==
    \A e \in GlobalEntries(hashes) : \A d \in DestinationIds :
        CheckDuplicate("per-destination", hashes, e.hash, d)
\* a change of the mode leaves the entries as they are
C33_SwitchKeeps == duplicateMode' # duplicateMode => imageHashes' = imageHashes
\* an entry recorded in mode global stays until it has expired
C33_UntilExpiry ==
    \A e \in GlobalEntries(imageHashes) :
        e \in EntriesOf(imageHashes') \/ e.timestamp < now - HashRetention
\* an entry recorded in mode global stays until cleanupOldHashes removes it,
\* expired or one of the oldest beyond MAX_STORED_HASHES, or until
\* storeImageHash writes the entry of its image again
C33_UntilCleanup ==
    \A e \in GlobalEntries(imageHashes) :
        \/ e \in EntriesOf(imageHashes')
        \/ /\ ops[1].pc = "cleanupSet"
           /\ e.hash \notin Keys(imageHashes')
           /\ \/ e.timestamp < now - HashRetention
              \/ Len(NotExpired(ops[1].hashes, now)) > MAX_STORED_HASHES
        \/ /\ ops[1].pc = "storeSet"
           /\ ops[1].image = e.hash

-----------------------------------------------------------------------------
(* Overlapping runs of rebuildContextMenu *)

\* run r creates its items in this step
CreatesItems(r) ==
    /\ rebuilds[r].pc = "create"
    /\ rebuilds' = Resolved(rebuilds, r)
\* the ids of the items run r asks chrome.contextMenus.create for
IdsCreatedBy(r) == ItemIds(ItemsFor(rebuilds[r].read))
C34_Step ==
    \A r \in DOMAIN rebuilds :
        CreatesItems(r) =>
            /\ IdsCreatedBy(r) \cap ItemIds(menu) = {}
            /\ rebuilds' = <<>> => MenuReflects(menu', destinations')

\* C34: however the runs of rebuildContextMenu overlap, every
\* chrome.contextMenus.create is issued for an id the menu does not hold, and
\* when the last run has ended the menu is the one the stored destinations
\* ask for
C34_NoDuplicateIds == [][C34_Step]_vars

-----------------------------------------------------------------------------
(* Overlapping token refreshes *)

\* run q has stored the tokens of its response, and they are the ones stored
StoredBy(q) ==
    /\ refreshes[q].pc = "done"
    /\ refreshes[q].response.status = "ok"
    /\ tokens.stored
    /\ tokens.accessToken = refreshes[q].response.access_token
\* run r, which read the tokens before run q stored its own, fails in this step
FailsAfter(r, q) ==
    /\ r # q
    /\ refreshes[r].pc \in {"fetch", "failed"}
    /\ refreshes[r].tokens.accessToken # tokens.accessToken
    /\ refreshes'[r].pc = "done"
    /\ refreshes'[r].error.thrown
C35_Step ==
    \A r, q \in RefreshIds : StoredBy(q) /\ FailsAfter(r, q) => tokens' = tokens

\* C35: when two calls of refreshAccessToken overlap and one has stored new
\* tokens, these tokens are still stored when the other call has failed
C35_TokensSurviveOverlap == [][C35_Step]_vars

-----------------------------------------------------------------------------
(* Embedding twice *)

\* C36: for every JPEG, addImageMetadata applied to a JPEG it returned, with
\* the same url and datetime, returns the same bytes again
C36_JpegIdempotent ==
    jpeg.calls >= 2 => jpeg.again

-----------------------------------------------------------------------------
(* The media type returned *)

\* the call has returned
HasReturned == pc = "done" /\ result.settled = "fulfilled"

\* C37 as stated: the media type of the Blob returned is the media type of
\* the Blob passed in, for every input and every media type
C37_TypeNeverChanges ==
    HasReturned => result.type = blob.type

\* C37: the media type of the Blob returned is the media type of the Blob
\* passed in, except that a Blob built by addJpegMetadata has the type
\* image/jpeg, also when the Blob passed in has the type image/jpg
C37_TypeKeptOrJpeg ==
    HasReturned =>
        result.type = IF Injector(blob.type) = "jpeg" /\ ~result.same
                      THEN "image/jpeg" ELSE blob.type
C37_Witness ==
    HasReturned /\ blob.type = "image/jpg" /\ ~result.same /\ result.type = "image/jpeg"


-----------------------------------------------------------------------------
(* The 'XMP ' chunks of a WebP *)

\* the offsets at which the bytes 'XMP ' stand in buf; the packet written and
\* the payloads of the chunks of Buffers do not hold these bytes
XmpOffsets(buf) ==
    {p \in 12..(Len(buf) - 4) : \A i \in 0..3 : At(buf, p + i) = ChunkIdXMP[i + 1]}

\* the input is a WebP whose first chunk is VP8X and that holds an 'XMP ' chunk
Vp8xWithXmp ==
    /\ blob.type = "image/webp"
    /\ WebpSignatureOk(input)
    /\ WebpChunkType(input) = TagVP8X
    /\ XmpOffsets(input) # {}

\* C38: for a VP8X input that holds an 'XMP ' chunk, what addImageMetadata
\* returns holds exactly one 'XMP ' chunk
C38_SingleXmpChunk ==
    HasReturned /\ Vp8xWithXmp => Cardinality(XmpOffsets(result.bytes)) = 1

-----------------------------------------------------------------------------
(* The destinations reorderDestinations stores *)

\* the order fields of array
OrdersOf(array) == {array[i].order : i \in 1..Len(array)}

\* call c is reorderDestinations and writes the destinations in this step
Reorders(c) ==
    /\ schemaCalls[c].name = "reorderDestinations"
    /\ schemaCalls[c].pc = "read"
    /\ schemaCalls'[c].pc = "returned"
    /\ schemaCalls'[c].result = "ok"

C39_Step ==
    \A c \in SchemaCallIds :
        Reorders(c) =>
            /\ IdsOf(destinations') = IdsOf(schemaCalls[c].read)
            /\ OrdersOf(destinations') = 0..(Len(destinations') - 1)

\* C39: whatever array of ids reorderDestinations is called with, the
\* destinations it stores are the destinations it read, with the order fields
\* 0..n-1
C39_ReorderKeepsDestinations == [][C39_Step]_vars

=============================================================================
